---- MODULE Spec2Model ----
(***************************************************************************)
(* A model of the BER-TLV codec of skythen/bertlv (src/bertlv.go): the tag *)
(* and length codecs, the recursive decoder, the encoder and the Builder.  *)
(* Bytes are the integers 0..255, byte slices are sequences, a BerTLV is   *)
(* the record [Tag, Value, children], and an error is the chain of its     *)
(* wrapped contexts, outermost first (Nil, the empty chain, is no error).  *)
(***************************************************************************)
EXTENDS Integers, Sequences, FiniteSets, TLC

VARIABLES pc, input, parsed, first, encoded, reparsed, bu, built,
          n, tagRes, lenRes, lenBytes, tlvs, out,
          argTag, node, found, foundFirst, ops, chk, parsed2, node2, ptr,
          held, stack, heap, builders, seen, cls

vars == <<pc, input, parsed, first, encoded, reparsed, bu, built,
          n, tagRes, lenRes, lenBytes, tlvs, out,
          argTag, node, found, foundFirst, ops, chk, parsed2, node2, ptr,
          held, stack, heap, builders, seen, cls>>

(***************************************************************************)
(* Bounds of the model.                                                    *)
(***************************************************************************)
\* The longest enumerated input buffer.
MaxLen == 5
\* The longest enumerated sequence of sibling nodes handed to the encoder.
MaxNodes == 2
\* The most bytes that follow the first byte of a buffer handed to
\* parseTag or parseLength.
MaxTail == 2
\* How far below and above 65535 the value lengths handed to Bytes() reach.
MaxOver == 5
\* The longest value handed to NewBerTLV.
MaxValue == 3
\* The longest chain of calls on a Builder.
MaxOps == 2
\* The longest sequence of siblings searched, and the most children of one.
MaxSiblings == 2
MaxKids == 2
\* The most Add calls made on the builders of one program, and the most
\* spare capacity an array gets when append allocates it.
MaxAdds == 3
MaxSpare == 5

(***************************************************************************)
(* Program constants.                                                      *)
(***************************************************************************)
\* The largest value length the encoder emits (if valueLen > 65535).
MaxValueLen == 65535

(***************************************************************************)
(* Go primitives.                                                          *)
(***************************************************************************)
\* a & b on non-negative integers.
RECURSIVE BitAnd(_, _)
BitAnd(a, b) ==
    IF a = 0 \/ b = 0 THEN 0
    ELSE (a % 2) * (b % 2) + 2 * BitAnd(a \div 2, b \div 2)

\* b[lo:hi] with Go's zero-based, half-open indices.
Slice(b, lo, hi) == SubSeq(b, lo + 1, hi)

\* b[lo:]
SliceFrom(b, lo) == SubSeq(b, lo + 1, Len(b))

\* The nil error.
Nil == <<>>

\* errors.New / errors.Errorf: a fresh error carrying one context.
NewError(msg, tag) == <<[msg |-> msg, tag |-> tag, index |-> -1]>>

\* errors.Wrap: the context is put in front of the chain.
Wrap(err, msg, tag, index) == <<[msg |-> msg, tag |-> tag, index |-> index]>> \o err

\* The runtime panic of an index expression outside its slice.
PanicIndex == NewError("panic: index out of range", <<>>)

\* The runtime panic of a slice expression outside its slice.
PanicSlice == NewError("panic: slice bounds out of range", <<>>)

\* The zero BerTLV{}.
ZeroTLV == [Tag |-> <<>>, Value |-> <<>>, children |-> <<>>]

(***************************************************************************)
(* Tag codec.                                                              *)
(***************************************************************************)
NewOneByteTag(b) == <<b>>

NewTwoByteTag(fb, sb) == <<fb, sb>>

NewThreeByteTag(fb, sb, tb) == <<fb, sb, tb>>

IsConstructed(t) ==
    IF Len(t) = 0 THEN FALSE
    ELSE BitAnd(t[1], 32) # 0

\* A variant: the second byte is tested with the mask of the first.
parseTag_SecondByteMask(b) ==
    IF Len(b) = 0 THEN [tag |-> <<>>, err |-> PanicIndex]
    ELSE IF BitAnd(b[1], 31) # 31
        THEN [tag |-> NewOneByteTag(b[1]), err |-> Nil]
    ELSE IF Len(b) < 2
        THEN [tag |-> <<>>,
              err |-> NewError("indicated tag encoding with more than one byte, but following bytes are missing", <<>>)]
    ELSE IF BitAnd(b[2], 31) # 31
        THEN [tag |-> NewTwoByteTag(b[1], b[2]), err |-> Nil]
    ELSE IF Len(b) < 3
        THEN [tag |-> <<>>,
              err |-> NewError("indicated tag encoding with three bytes, but following bytes are missing", <<>>)]
    ELSE [tag |-> NewThreeByteTag(b[1], b[2], b[3]), err |-> Nil]

\* A variant: a tag that goes on after its first byte ends with its second.
parseTag_NoThirdByte(b) ==
    IF Len(b) = 0 THEN [tag |-> <<>>, err |-> PanicIndex]
    ELSE IF BitAnd(b[1], 31) # 31
        THEN [tag |-> NewOneByteTag(b[1]), err |-> Nil]
    ELSE IF Len(b) < 2
        THEN [tag |-> <<>>,
              err |-> NewError("indicated tag encoding with more than one byte, but following bytes are missing", <<>>)]
    ELSE [tag |-> NewTwoByteTag(b[1], b[2]), err |-> Nil]

parseTag(b) ==
    IF Len(b) = 0 THEN [tag |-> <<>>, err |-> PanicIndex]
    ELSE IF BitAnd(b[1], 31) # 31
        THEN [tag |-> NewOneByteTag(b[1]), err |-> Nil]
    ELSE IF Len(b) < 2
        THEN [tag |-> <<>>,
              err |-> NewError("indicated tag encoding with more than one byte, but following bytes are missing", <<>>)]
    ELSE IF BitAnd(b[2], 128) # 128
        THEN [tag |-> NewTwoByteTag(b[1], b[2]), err |-> Nil]
    ELSE IF Len(b) < 3
        THEN [tag |-> <<>>,
              err |-> NewError("indicated tag encoding with three bytes, but following bytes are missing", <<>>)]
    ELSE [tag |-> NewThreeByteTag(b[1], b[2], b[3]), err |-> Nil]

\* A variant: the empty tag is given the class Universal.
Class_EmptyIsUniversal(t) ==
    IF Len(t) = 0 THEN [class |-> "Universal", err |-> Nil]
    ELSE IF BitAnd(t[1], 192) = 64 THEN [class |-> "Application", err |-> Nil]
    ELSE IF BitAnd(t[1], 192) = 128 THEN [class |-> "ContextSpecific", err |-> Nil]
    ELSE IF BitAnd(t[1], 192) = 192 THEN [class |-> "Private", err |-> Nil]
    ELSE [class |-> "Universal", err |-> Nil]

\* t.Class(): the class, or the panic of t[0] on the empty tag.
Class(t) ==
    IF Len(t) = 0 THEN [class |-> "", err |-> PanicIndex]
    ELSE IF BitAnd(t[1], 192) = 64 THEN [class |-> "Application", err |-> Nil]
    ELSE IF BitAnd(t[1], 192) = 128 THEN [class |-> "ContextSpecific", err |-> Nil]
    ELSE IF BitAnd(t[1], 192) = 192 THEN [class |-> "Private", err |-> Nil]
    ELSE [class |-> "Universal", err |-> Nil]

\* A variant: the second byte of a 2-byte tag is not looked at.
CheckEncoding_SecondByteOfTwo(t) ==
    LET l == Len(t)
    IN  IF l > 3
            THEN NewError("tags must consist of a maximum of three bytes", t)
        ELSE IF l = 1
            THEN IF BitAnd(t[1], 31) = 31
                    THEN NewError("tag consists of one byte but indicates that more bytes follow", t)
                    ELSE Nil
        ELSE IF l = 0 THEN PanicIndex
        ELSE IF BitAnd(t[1], 31) # 31
            THEN NewError("first byte does not indicate that more bytes follow", t)
        ELSE IF l = 2 THEN Nil
        ELSE IF BitAnd(t[2], 128) # 128
            THEN NewError("tag consists of 3 byte but second byte does not indicate that more bytes follow", t)
        ELSE Nil

\* t.CheckEncoding(); t[0] on an empty tag panics.
CheckEncoding(t) ==
    LET l == Len(t)
    IN  IF l > 3
            THEN NewError("tags must consist of a maximum of three bytes", t)
        ELSE IF l = 1
            THEN IF BitAnd(t[1], 31) = 31
                    THEN NewError("tag consists of one byte but indicates that more bytes follow", t)
                    ELSE Nil
        ELSE IF l = 0 THEN PanicIndex
        ELSE IF BitAnd(t[1], 31) # 31
            THEN NewError("first byte does not indicate that more bytes follow", t)
        ELSE IF l = 2
            THEN IF BitAnd(t[2], 128) = 128
                    THEN NewError("tag consists of 2 byte but indicates that more bytes follow", t)
                    ELSE Nil
        ELSE IF BitAnd(t[2], 128) # 128
            THEN NewError("tag consists of 3 byte but second byte does not indicate that more bytes follow", t)
        ELSE Nil

(***************************************************************************)
(* Length codec.                                                           *)
(***************************************************************************)
\* binary.BigEndian.Uint16 of a two-byte slice.
Uint16(b) == b[1] * 256 + b[2]

\* A variant: 0x80 is taken as a one-byte length.
parseLength_Accepts80(b) ==
    IF Len(b) = 0
        THEN [length |-> 0, lLen |-> 0, err |-> NewError("missing length", <<>>)]
    ELSE IF b[1] <= 128
        THEN [length |-> b[1], lLen |-> 1, err |-> Nil]
    ELSE IF b[1] = 129
        THEN IF Len(b) - 1 <= 0
                THEN [length |-> 0, lLen |-> 0,
                      err |-> NewError("indicated length encoding with two bytes, but following byte are missing", <<>>)]
                ELSE [length |-> b[2], lLen |-> 2, err |-> Nil]
    ELSE IF b[1] = 130
        THEN IF Len(b) - 2 <= 0
                THEN [length |-> 0, lLen |-> 0,
                      err |-> NewError("indicated length encoding with three bytes, but following bytes are missing", <<>>)]
                ELSE [length |-> Uint16(Slice(b, 1, 3)), lLen |-> 3, err |-> Nil]
    ELSE [length |-> 0, lLen |-> 0,
          err |-> NewError("if length is greater than 127, first byte must indicate encoding of length", <<>>)]

parseLength(b) ==
    IF Len(b) = 0
        THEN [length |-> 0, lLen |-> 0, err |-> NewError("missing length", <<>>)]
    ELSE IF b[1] <= 127
        THEN [length |-> b[1], lLen |-> 1, err |-> Nil]
    ELSE IF b[1] = 129
        THEN IF Len(b) - 1 <= 0
                THEN [length |-> 0, lLen |-> 0,
                      err |-> NewError("indicated length encoding with two bytes, but following byte are missing", <<>>)]
                ELSE [length |-> b[2], lLen |-> 2, err |-> Nil]
    ELSE IF b[1] = 130
        THEN IF Len(b) - 2 <= 0
                THEN [length |-> 0, lLen |-> 0,
                      err |-> NewError("indicated length encoding with three bytes, but following bytes are missing", <<>>)]
                ELSE [length |-> Uint16(Slice(b, 1, 3)), lLen |-> 3, err |-> Nil]
    ELSE [length |-> 0, lLen |-> 0,
          err |-> NewError("if length is greater than 127, first byte must indicate encoding of length", <<>>)]

\* A variant: 128 is still encoded in one byte.
buildLen_ShortTo128(l) ==
    IF l = 0 THEN <<0>>
    ELSE IF l <= 128 THEN <<l % 256>>
    ELSE IF l <= 255 THEN <<129, l % 256>>
    ELSE <<130, BitAnd((l \div 256) % 256, 255), BitAnd(l, 255) % 256>>

buildLen(l) ==
    IF l = 0 THEN <<0>>
    ELSE IF l <= 127 THEN <<l % 256>>
    ELSE IF l <= 255 THEN <<129, l % 256>>
    ELSE <<130, BitAnd((l \div 256) % 256, 255), BitAnd(l, 255) % 256>>

(***************************************************************************)
(* Recursive decoder.                                                      *)
(***************************************************************************)
RECURSIVE parseFirstBerTLV(_), parseChildren(_, _, _, _),
          parseChildren_FirstOnly(_, _, _, _)

\* A variant: the index one past the declared length.
indicatedEndIndex_OnePast(leftIndex, length) == leftIndex + length

\* A variant: the index one short of the last, which lets a declared length
\* reach one byte past the buffer.
indicatedEndIndex_OneShort(leftIndex, length) == leftIndex + length - 2

\* The last index the declared length reaches.
indicatedEndIndex(leftIndex, length) == leftIndex + length - 1

\* A variant: the loop stops after the first child.
parseChildren_FirstOnly(tag, value, valueIndex, children) ==
    IF ~(valueIndex < Len(value)) \/ Len(children) >= 1
        THEN [children |-> children, err |-> Nil]
    ELSE LET r == parseFirstBerTLV(SliceFrom(value, valueIndex))
         IN  IF r.err # Nil
                THEN [children |-> <<>>,
                      err |-> Wrap(r.err, "invalid child object", tag, -1)]
                ELSE parseChildren_FirstOnly(tag, value, valueIndex + r.lenParsed,
                                             Append(children, r.berTLV))

\* The loop over the value of a constructed TLV.
parseChildren(tag, value, valueIndex, children) ==
    IF ~(valueIndex < Len(value)) THEN [children |-> children, err |-> Nil]
    ELSE LET r == parseFirstBerTLV(SliceFrom(value, valueIndex))
         IN  IF r.err # Nil
                THEN [children |-> <<>>,
                      err |-> Wrap(r.err, "invalid child object", tag, -1)]
                ELSE parseChildren(tag, value, valueIndex + r.lenParsed,
                                   Append(children, r.berTLV))

\* A variant: the consumed count leaves out the bytes of a non-empty value.
parseValue_HeaderOnly(b, tag, leftIndex, length) ==
    LET value == Slice(b, leftIndex, leftIndex + length)
    IN  IF leftIndex + length > Len(b)
            THEN [berTLV |-> ZeroTLV, lenParsed |-> 0, err |-> PanicSlice]
        ELSE IF Len(value) = 0
            THEN [berTLV |-> [Tag |-> tag, Value |-> <<>>, children |-> <<>>],
                  lenParsed |-> leftIndex, err |-> Nil]
        ELSE IF IsConstructed(tag)
            THEN LET c == parseChildren(tag, value, 0, <<>>)
                 IN  IF c.err # Nil
                        THEN [berTLV |-> ZeroTLV, lenParsed |-> 0, err |-> c.err]
                        ELSE [berTLV |-> [Tag |-> tag, Value |-> value,
                                          children |-> c.children],
                              lenParsed |-> leftIndex, err |-> Nil]
        ELSE [berTLV |-> [Tag |-> tag, Value |-> value, children |-> <<>>],
              lenParsed |-> leftIndex, err |-> Nil]

\* The value of one TLV, once its tag and length are parsed and in bounds.
parseValue(b, tag, leftIndex, length) ==
    LET value == Slice(b, leftIndex, leftIndex + length)
    IN  IF leftIndex + length > Len(b)
            THEN [berTLV |-> ZeroTLV, lenParsed |-> 0, err |-> PanicSlice]
        ELSE IF Len(value) = 0
            THEN [berTLV |-> [Tag |-> tag, Value |-> <<>>, children |-> <<>>],
                  lenParsed |-> leftIndex, err |-> Nil]
        ELSE IF IsConstructed(tag)
            THEN LET c == parseChildren(tag, value, 0, <<>>)
                 IN  IF c.err # Nil
                        THEN [berTLV |-> ZeroTLV, lenParsed |-> 0, err |-> c.err]
                        ELSE [berTLV |-> [Tag |-> tag, Value |-> value,
                                          children |-> c.children],
                              lenParsed |-> leftIndex + length, err |-> Nil]
        ELSE [berTLV |-> [Tag |-> tag, Value |-> value, children |-> <<>>],
              lenParsed |-> leftIndex + length, err |-> Nil]

parseFirstBerTLV(b) ==
    LET t == parseTag(b)
    IN  IF t.err # Nil
            THEN [berTLV |-> ZeroTLV, lenParsed |-> 0,
                  err |-> Wrap(t.err, "invalid tag at start", b, -1)]
        ELSE LET l == parseLength(SliceFrom(b, Len(t.tag)))
             IN  IF l.err # Nil
                    THEN [berTLV |-> ZeroTLV, lenParsed |-> 0,
                          err |-> Wrap(l.err, "invalid length encoding", t.tag, -1)]
                 ELSE IF indicatedEndIndex(Len(t.tag) + l.lLen, l.length) > Len(b) - 1
                    THEN [berTLV |-> ZeroTLV, lenParsed |-> 0,
                          err |-> NewError("indicated length of value is out of bounds", t.tag)]
                 ELSE parseValue(b, t.tag, Len(t.tag) + l.lLen, l.length)

\* A variant: on a failure the TLVs decoded so far are returned.
RECURSIVE ParseLoop_Partial(_, _, _)
ParseLoop_Partial(b, index, result) ==
    IF ~(index < Len(b)) THEN [tlvs |-> result, err |-> Nil]
    ELSE LET r == parseFirstBerTLV(SliceFrom(b, index))
         IN  IF r.err # Nil
                THEN [tlvs |-> result,
                      err |-> Wrap(r.err, "invalid TLV starting at index", <<>>, index)]
                ELSE ParseLoop_Partial(b, index + r.lenParsed, Append(result, r.berTLV))

\* The loop of Parse over the top-level TLVs.
RECURSIVE ParseLoop(_, _, _)
ParseLoop(b, index, result) ==
    IF ~(index < Len(b)) THEN [tlvs |-> result, err |-> Nil]
    ELSE LET r == parseFirstBerTLV(SliceFrom(b, index))
         IN  IF r.err # Nil
                THEN [tlvs |-> <<>>,
                      err |-> Wrap(r.err, "invalid TLV starting at index", <<>>, index)]
                ELSE ParseLoop(b, index + r.lenParsed, Append(result, r.berTLV))

\* A variant: no check for the empty buffer.
Parse_NoEmptyCheck(b) == ParseLoop(b, 0, <<>>)

Parse(b) ==
    IF Len(b) = 0
        THEN [tlvs |-> <<>>, err |-> NewError("TLV has length 0", <<>>)]
        ELSE ParseLoop(b, 0, <<>>)

\* The loop of NewBerTLV over the value of a constructed tag.
RECURSIVE NewBerTLVLoop(_, _, _, _)
NewBerTLVLoop(tag, value, index, children) ==
    IF ~(index < Len(value))
        THEN [berTLV |-> <<[Tag |-> tag, Value |-> value, children |-> children]>>,
              err |-> Nil]
        ELSE LET r == parseFirstBerTLV(SliceFrom(value, index))
             IN  IF r.err # Nil
                    THEN [berTLV |-> Nil,
                          err |-> Wrap(r.err, "invalid content", tag, -1)]
                    ELSE NewBerTLVLoop(tag, value, index + r.lenParsed,
                                       Append(children, r.berTLV))

\* A variant: the value is decoded whatever the tag.
NewBerTLV_AlwaysDecodes(tag, value) == NewBerTLVLoop(tag, value, 0, <<>>)

\* NewBerTLV(tag, value): a pointer to the new node (a sequence of one
\* node), or nil (the empty sequence) and an error.
NewBerTLV(tag, value) ==
    IF ~IsConstructed(tag)
        THEN [berTLV |-> <<[Tag |-> tag, Value |-> value, children |-> <<>>]>>,
              err |-> Nil]
        ELSE NewBerTLVLoop(tag, value, 0, <<>>)

(***************************************************************************)
(* The second copy of the decoder (src/bertlv.go from line 503): the same  *)
(* codec with its own bookkeeping and its own error texts.                 *)
(***************************************************************************)
parseTag2(b) ==
    IF Len(b) = 0 THEN [tag |-> <<>>, err |-> PanicIndex]
    ELSE IF BitAnd(b[1], 31) = 31
        THEN IF Len(b) < 2
                THEN [tag |-> <<>>,
                      err |-> NewError("failed to parse tag - first byte indicates that tag is encoded with more than one byte, but following byte are missing", <<>>)]
             ELSE IF BitAnd(b[2], 128) = 128
                THEN IF Len(b) < 3
                        THEN [tag |-> <<>>,
                              err |-> NewError("failed to parse tag - first two byte indicate that tag is encoded with three byte, but following byte are missing", <<>>)]
                        ELSE [tag |-> NewThreeByteTag(b[1], b[2], b[3]), err |-> Nil]
             ELSE [tag |-> NewTwoByteTag(b[1], b[2]), err |-> Nil]
    ELSE [tag |-> NewOneByteTag(b[1]), err |-> Nil]

parseLength2(b) ==
    IF Len(b) = 0
        THEN [length |-> 0, lLen |-> 0,
              err |-> NewError("failed to parse length - is empty", <<>>)]
    ELSE IF b[1] <= 127
        THEN [length |-> b[1], lLen |-> 1, err |-> Nil]
    ELSE IF b[1] = 129
        THEN IF Len(b) - 1 <= 0
                THEN [length |-> 0, lLen |-> 0,
                      err |-> NewError("failed to parse length - first byte indicates that length is encoded with two byte, but following byte are missing", <<>>)]
                ELSE [length |-> b[2], lLen |-> 2, err |-> Nil]
    ELSE IF b[1] = 130
        THEN IF Len(b) - 2 <= 0
                THEN [length |-> 0, lLen |-> 0,
                      err |-> NewError("failed to parse length - first byte indicates that length is encoded with three byte, but following byte are missing", <<>>)]
                ELSE [length |-> Uint16(Slice(b, 1, 3)), lLen |-> 3, err |-> Nil]
    ELSE [length |-> 0, lLen |-> 0,
          err |-> NewError("failed to parse length - if length is greater than 127, first byte must indicate encoding of length", <<>>)]

RECURSIVE parseBerTLV(_), parseBerTLVChildren(_, _, _),
          parseBerTLVChildren_Lenient(_, _, _)

\* A variant: a child that does not decode ends the loop without an error.
parseBerTLVChildren_Lenient(t, cv, children) ==
    IF ~(Len(cv) > 0) THEN [children |-> children, err |-> Nil]
    ELSE LET r == parseBerTLV(cv)
         IN  IF r.err # Nil
                THEN [children |-> children, err |-> Nil]
                ELSE parseBerTLVChildren_Lenient(t, SliceFrom(cv, r.lenParsed),
                                                 Append(children, r.berTLV))

\* The loop of parseBerTLV over the rest cv of the value of a constructed TLV.
parseBerTLVChildren(t, cv, children) ==
    IF ~(Len(cv) > 0) THEN [children |-> children, err |-> Nil]
    ELSE LET r == parseBerTLV(cv)
         IN  IF r.err # Nil
                THEN [children |-> <<>>,
                      err |-> Wrap(r.err, "error while parsing child TLV of constructed object", t, -1)]
                ELSE parseBerTLVChildren(t, SliceFrom(cv, r.lenParsed),
                                         Append(children, r.berTLV))

parseBerTLV(b) ==
    LET t == parseTag2(b)
    IN  IF t.err # Nil
            THEN [berTLV |-> ZeroTLV, lenParsed |-> 0,
                  err |-> Wrap(t.err, "failed to parse BER-TLV - invalid tag", b, -1)]
        ELSE LET tLen == Len(t.tag)
                 l    == parseLength2(SliceFrom(b, tLen))
             IN  IF l.err # Nil
                    THEN [berTLV |-> ZeroTLV, lenParsed |-> 0,
                          err |-> Wrap(l.err, "invalid length encoding ", t.tag, -1)]
                 ELSE IF tLen + l.lLen + l.length - 1 > Len(b) - 1
                    THEN [berTLV |-> ZeroTLV, lenParsed |-> 0,
                          err |-> NewError("indicated length of value is out of bounds. indicated end index", t.tag)]
                 ELSE LET v == Slice(b, tLen + l.lLen, tLen + l.lLen + l.length)
                      IN  IF tLen + l.lLen + l.length > Len(b)
                             THEN [berTLV |-> ZeroTLV, lenParsed |-> 0,
                                   err |-> PanicSlice]
                          ELSE IF ~(Len(v) > 0)
                             THEN [berTLV |-> [Tag |-> t.tag, Value |-> <<>>,
                                               children |-> <<>>],
                                   lenParsed |-> tLen + l.lLen, err |-> Nil]
                          ELSE IF IsConstructed(t.tag)
                             THEN LET c == parseBerTLVChildren(t.tag, v, <<>>)
                                  IN  IF c.err # Nil
                                         THEN [berTLV |-> ZeroTLV, lenParsed |-> 0,
                                               err |-> c.err]
                                         ELSE [berTLV |-> [Tag |-> t.tag, Value |-> v,
                                                           children |-> c.children],
                                               lenParsed |-> tLen + l.lLen + l.length,
                                               err |-> Nil]
                          ELSE [berTLV |-> [Tag |-> t.tag, Value |-> v,
                                            children |-> <<>>],
                                lenParsed |-> tLen + l.lLen + l.length, err |-> Nil]

\* The loop of the second Parse: b is cut down by each decoded TLV, and an
\* error of parseBerTLV is returned as it is.
RECURSIVE Parse2Loop(_, _)
Parse2Loop(b, result) ==
    IF ~(Len(b) > 0) THEN [tlvs |-> result, err |-> Nil]
    ELSE LET r == parseBerTLV(b)
         IN  IF r.err # Nil
                THEN [tlvs |-> <<>>, err |-> r.err]
                ELSE Parse2Loop(SliceFrom(b, r.lenParsed), Append(result, r.berTLV))

Parse2(b) ==
    IF Len(b) = 0
        THEN [tlvs |-> <<>>,
              err |-> NewError("failed to parse BER-TLVs - tlv has length 0", <<>>)]
        ELSE Parse2Loop(b, <<>>)

\* The loop of the second NewBerTLV over the rest cpy of the value.
RECURSIVE NewBerTLV2Loop(_, _, _, _)
NewBerTLV2Loop(t, v, cpy, children) ==
    IF ~(Len(cpy) > 0)
        THEN [berTLV |-> <<[Tag |-> t, Value |-> v, children |-> children]>>,
              err |-> Nil]
        ELSE LET r == parseBerTLV(cpy)
             IN  IF r.err # Nil
                    THEN [berTLV |-> Nil,
                          err |-> Wrap(r.err, "failed to create new BerTLV because of invalid content of constructed object with tag", t, -1)]
                    ELSE NewBerTLV2Loop(t, v, SliceFrom(cpy, r.lenParsed),
                                        Append(children, r.berTLV))

NewBerTLV2(t, v) ==
    IF IsConstructed(t)
        THEN NewBerTLV2Loop(t, v, v, <<>>)
        ELSE [berTLV |-> <<[Tag |-> t, Value |-> v, children |-> <<>>]>>,
              err |-> Nil]

(***************************************************************************)
(* Encoder.                                                                *)
(***************************************************************************)
\* A variant: an empty value is encoded without its length byte.
BerTLVBytes_NoZeroLength(ber) ==
    LET valueLen == IF Len(ber.Value) > MaxValueLen THEN MaxValueLen ELSE Len(ber.Value)
        value    == IF Len(ber.Value) > MaxValueLen
                        THEN Slice(ber.Value, 0, MaxValueLen) ELSE ber.Value
        length   == IF valueLen = 0 THEN <<>> ELSE buildLen(valueLen)
        tagLen   == Len(ber.Tag)
        tag      == IF tagLen > 0 /\ tagLen <= 3 THEN ber.Tag
                    ELSE IF tagLen = 0 THEN <<0>>
                    ELSE Slice(ber.Tag, 0, 3)
    IN  tag \o length \o value

\* A variant: a value longer than 65535 bytes is dropped instead of cut.
BerTLVBytes_OversizeDropped(ber) ==
    LET value    == IF Len(ber.Value) > MaxValueLen THEN <<>> ELSE ber.Value
        length   == buildLen(Len(value))
        tagLen   == Len(ber.Tag)
        tag      == IF tagLen > 0 /\ tagLen <= 3 THEN ber.Tag
                    ELSE IF tagLen = 0 THEN <<0>>
                    ELSE Slice(ber.Tag, 0, 3)
    IN  tag \o length \o value

\* A variant: the tag is emitted whatever its length.
BerTLVBytes_TagAsIs(ber) ==
    LET valueLen == IF Len(ber.Value) > MaxValueLen THEN MaxValueLen ELSE Len(ber.Value)
        value    == IF Len(ber.Value) > MaxValueLen
                        THEN Slice(ber.Value, 0, MaxValueLen) ELSE ber.Value
        length   == buildLen(valueLen)
    IN  ber.Tag \o length \o value

BerTLVBytes(ber) ==
    LET valueLen == IF Len(ber.Value) > MaxValueLen THEN MaxValueLen ELSE Len(ber.Value)
        value    == IF Len(ber.Value) > MaxValueLen
                        THEN Slice(ber.Value, 0, MaxValueLen) ELSE ber.Value
        length   == buildLen(valueLen)
        tagLen   == Len(ber.Tag)
        tag      == IF tagLen > 0 /\ tagLen <= 3 THEN ber.Tag
                    ELSE IF tagLen = 0 THEN <<0>>
                    ELSE Slice(ber.Tag, 0, 3)
    IN  tag \o length \o value

\* A variant: the value of a node with children is encoded from them.
RECURSIVE BerTLVsBytes_FromChildren(_)
BerTLVsBytes_FromChildren(t) ==
    IF t = <<>> THEN <<>>
    ELSE LET ber == Head(t)
             value == IF ber.children # <<>>
                        THEN BerTLVsBytes_FromChildren(ber.children)
                        ELSE ber.Value
         IN  BerTLVBytes([Tag |-> ber.Tag, Value |-> value, children |-> <<>>])
                \o BerTLVsBytes_FromChildren(Tail(t))

\* BerTLVs.Bytes: the loop appending each sibling's bytes.
RECURSIVE BerTLVsBytes(_)
BerTLVsBytes(t) ==
    IF t = <<>> THEN <<>>
    ELSE BerTLVBytes(Head(t)) \o BerTLVsBytes(Tail(t))

\* ber.BytesLength()
BytesLength(ber) ==
    LET lVal == IF Len(ber.Value) > MaxValueLen THEN MaxValueLen ELSE Len(ber.Value)
    IN  Len(ber.Tag) + Len(buildLen(lVal)) + lVal

(***************************************************************************)
(* Lookups.  A *BerTLV is a sequence of one node, or Nil.                  *)
(***************************************************************************)
\* bytes.Equal(a, b)
BytesEqual(a, b) == a = b

\* The loop of FindAllWithTag: berTLVs after the siblings from index i on.
RECURSIVE FindAllLoop(_, _, _, _)
FindAllLoop(t, tag, i, berTLVs) ==
    IF i > Len(t) THEN berTLVs
    ELSE FindAllLoop(t, tag, i + 1,
                     IF BytesEqual(t[i].Tag, tag) THEN Append(berTLVs, t[i]) ELSE berTLVs)

\* A variant: a sibling's matching children are returned with it.
RECURSIVE FindAllWithTag_Descends(_, _)
FindAllWithTag_Descends(t, tag) ==
    IF t = <<>> THEN <<>>
    ELSE (IF BytesEqual(Head(t).Tag, tag) THEN <<Head(t)>> ELSE <<>>)
            \o FindAllLoop(Head(t).children, tag, 1, <<>>)
            \o FindAllWithTag_Descends(Tail(t), tag)

\* t.FindAllWithTag(tag)
FindAllWithTag(t, tag) ==
    LET berTLVs == FindAllLoop(t, tag, 1, <<>>)
    IN  IF Len(berTLVs) = 0 THEN Nil ELSE berTLVs

\* The loop of FindFirstWithTag and FirstChild from index i on: a pointer
\* to the loop's copy of the first match.
RECURSIVE FindFirstLoop(_, _, _)
FindFirstLoop(t, tag, i) ==
    IF i > Len(t) THEN Nil
    ELSE IF BytesEqual(t[i].Tag, tag) THEN <<t[i]>>
    ELSE FindFirstLoop(t, tag, i + 1)

\* A variant: the last match is returned.
RECURSIVE FindFirstWithTag_Last(_, _)
FindFirstWithTag_Last(t, tag) ==
    IF t = <<>> THEN Nil
    ELSE IF BytesEqual(t[Len(t)].Tag, tag) THEN <<t[Len(t)]>>
    ELSE FindFirstWithTag_Last(SubSeq(t, 1, Len(t) - 1), tag)

\* t.FindFirstWithTag(tag)
FindFirstWithTag(t, tag) == FindFirstLoop(t, tag, 1)

\* ber.Children(tag)
Children(ber, tag) ==
    IF Len(tag) = 0 THEN ber.children
    ELSE IF ~IsConstructed(ber.Tag) THEN Nil
    ELSE FindAllLoop(ber.children, tag, 1, <<>>)

\* ber.FirstChild(tag)
FirstChild(ber, tag) ==
    IF Len(tag) = 0 /\ Len(ber.children) # 0 THEN <<ber.children[1]>>
    ELSE IF ~IsConstructed(ber.Tag) THEN Nil
    ELSE FindFirstLoop(ber.children, tag, 1)

\* Where the pointer returned by t.FindFirstWithTag(tag) points: at the
\* loop variable tlv, a copy of the matching element, or nowhere.
FindFirstWithTagPtr(t, tag) ==
    IF FindFirstLoop(t, tag, 1) = Nil THEN "nil" ELSE "tlv"

\* A variant: without a filter the first child is copied before its address
\* is taken.
FirstChildPtr_Copy(ber, tag) ==
    IF Len(tag) = 0 /\ Len(ber.children) # 0 THEN "tlv"
    ELSE IF ~IsConstructed(ber.Tag) THEN "nil"
    ELSE IF FindFirstLoop(ber.children, tag, 1) = Nil THEN "nil" ELSE "tlv"

\* Where the pointer returned by ber.FirstChild(tag) points: at element 0
\* of the children array, which the receiver shares with the caller's node,
\* at the loop variable tlv, or nowhere.
FirstChildPtr(ber, tag) ==
    IF Len(tag) = 0 /\ Len(ber.children) # 0 THEN "children[0]"
    ELSE IF ~IsConstructed(ber.Tag) THEN "nil"
    ELSE IF FindFirstLoop(ber.children, tag, 1) = Nil THEN "nil" ELSE "tlv"

(***************************************************************************)
(* Builder.                                                                *)
(***************************************************************************)
\* The zero Builder{}.
EmptyBuilder == [bytes |-> <<>>]

\* A variant: the length byte 1 is left out.
AddByte_NoLength(b, tag, val) == [bytes |-> (b.bytes \o tag) \o <<val>>]

\* bu.AddByte(tag, val)
AddByte(b, tag, val) == [bytes |-> ((b.bytes \o tag) \o <<1>>) \o <<val>>]

\* prependLengthBytes(&b): the value b points to afterwards.
prependLengthBytes(b) == buildLen(Len(b)) \o b

\* bu.AddBytes(tag, v)
AddBytes(b, tag, v) ==
    LET withTag == b.bytes \o tag
    IN  IF Len(v) = 0 THEN [bytes |-> withTag \o <<0>>]
        ELSE LET cut == IF Len(v) > MaxValueLen THEN Slice(v, 0, MaxValueLen) ELSE v
             IN  [bytes |-> withTag \o prependLengthBytes(cut)]

\* bu.AddEmpty(tag)
AddEmpty(b, tag) == AddBytes(b, tag, <<>>)

AddRaw(b, raw) == [bytes |-> b.bytes \o raw]

\* A variant: only the first TLV of the contents is decoded.
BuildBerTLVs_FirstOnly(b) ==
    LET r == Parse(b.bytes)
    IN  IF r.err # Nil THEN r ELSE [tlvs |-> <<r.tlvs[1]>>, err |-> Nil]

BuildBerTLVs(b) == Parse(b.bytes)

BuilderBytes(b) == b.bytes

(***************************************************************************)
(* The Builder with its slice as Go holds it: a slice is the array it      *)
(* points into (0 for the nil slice), its length and its capacity; the     *)
(* heap h is the sequence of the arrays allocated so far.  A Builder is    *)
(* passed by value, which copies the slice and shares the array.           *)
(***************************************************************************)
NilSlice == [arr |-> 0, len |-> 0, cap |-> 0]

\* The bytes seen through slice sl.
SliceBytes(h, sl) == IF sl.arr = 0 THEN <<>> ELSE SubSeq(h[sl.arr], 1, sl.len)

\* A variant: append always allocates a new array.
goAppend_AlwaysCopies(h, sl, x, spare) ==
    [heap  |-> Append(h, (SliceBytes(h, sl) \o x) \o [i \in 1..spare |-> 0]),
     slice |-> [arr |-> Len(h) + 1, len |-> sl.len + Len(x),
                cap |-> sl.len + Len(x) + spare]]

\* append(sl, x...): within the capacity x is written into the array behind
\* the length of sl; beyond it a new array is allocated, with as much spare
\* capacity as the runtime chooses, and the bytes of sl are copied over.
goAppend(h, sl, x, spare) ==
    IF sl.len + Len(x) <= sl.cap
        THEN [heap  |-> IF sl.arr = 0 THEN h
                        ELSE [h EXCEPT ![sl.arr] =
                                [i \in 1..Len(@) |->
                                    IF i > sl.len /\ i <= sl.len + Len(x)
                                        THEN x[i - sl.len] ELSE @[i]]],
              slice |-> [sl EXCEPT !.len = sl.len + Len(x)]]
        ELSE [heap  |-> Append(h, (SliceBytes(h, sl) \o x) \o [i \in 1..spare |-> 0]),
              slice |-> [arr |-> Len(h) + 1, len |-> sl.len + Len(x),
                         cap |-> sl.len + Len(x) + spare]]

\* The appends of one Add call, in their order.
RECURSIVE AppendAll(_, _, _, _)
AppendAll(h, sl, chunks, spare) ==
    IF chunks = <<>> THEN [heap |-> h, slice |-> sl]
    ELSE LET r == goAppend(h, sl, chunks[1], spare)
         IN  AppendAll(r.heap, r.slice, Tail(chunks), spare)

\* What AddByte, AddBytes, AddEmpty and AddRaw append to bu.bytes.
AddByteAppends(tag, val) == <<tag, <<1>>, <<val>>>>

AddBytesAppends(tag, v) ==
    IF Len(v) = 0 THEN <<tag, <<0>>>>
    ELSE <<tag, prependLengthBytes(IF Len(v) > MaxValueLen
                                      THEN Slice(v, 0, MaxValueLen) ELSE v)>>

AddEmptyAppends(tag) == AddBytesAppends(tag, <<>>)

AddRawAppends(b) == <<b>>

(***************************************************************************)
(* Inputs.                                                                 *)
(***************************************************************************)
\* The bytes the enumerated buffers are made of: primitive one-byte tags
\* and short lengths (0x00, 0x01, 0x02), the start of a multi-byte tag
\* (0x1F), a constructed one-byte tag (0x21), the tag continuation bit and
\* the unsupported length marker (0x80), and the long-form length markers
\* (0x81, 0x82).
Alphabet == {0, 1, 2, 31, 33, 128, 129, 130}

\* Every sequence over S of length lo..hi.
SeqsOf(S, lo, hi) == UNION {[1..k -> S] : k \in lo..hi}

\* A value of l zero bytes.
Fill(l) == [i \in 1..l |-> 0]

\* Buffers longer than MaxLen: values at the edges of the length forms,
\* a declared length one past the buffer, and two levels of nesting.
LongInputs ==
    { <<1, 127>> \o Fill(127),
      <<1, 129, 128>> \o Fill(128),
      <<1, 129, 255>> \o Fill(255),
      <<1, 130, 1, 0>> \o Fill(256),
      <<33, 129, 128, 1, 126>> \o Fill(126),
      <<1, 129, 128>> \o Fill(127),
      <<1, 130, 1, 0>> \o Fill(255),
      <<33, 4, 33, 2, 1, 0>>,
      <<33, 6, 33, 4, 33, 2, 1, 0>>,
      <<33, 4, 33, 2, 1, 1>>,
      <<31, 128, 1, 130, 0, 1, 2>> }

ParseInputs == SeqsOf(Alphabet, 0, MaxLen) \cup LongInputs

\* The result variables before the call that sets them.
NoResult == [tlvs |-> <<>>, err |-> Nil]

NoFirst == [berTLV |-> ZeroTLV, lenParsed |-> 0, err |-> Nil]

NoTag == [tag |-> <<>>, err |-> Nil]

NoLength == [length |-> 0, lLen |-> 0, err |-> Nil]

NoNode == [berTLV |-> Nil, err |-> Nil]
NoClass == [class |-> "", err |-> Nil]

(***************************************************************************)
(* Spec: a caller decodes a buffer, encodes the tree and decodes the       *)
(* encoding again; or hands the buffer to a Builder and finalizes it.      *)
(***************************************************************************)
Init ==
    /\ pc = "start"
    /\ input \in ParseInputs
    /\ parsed = NoResult
    /\ first = NoFirst
    /\ encoded = <<>>
    /\ reparsed = NoResult
    /\ bu = EmptyBuilder
    /\ built = NoResult
    /\ n = 0
    /\ tagRes = NoTag
    /\ lenRes = NoLength
    /\ lenBytes = <<>>
    /\ tlvs = <<>>
    /\ out = <<>>
    /\ argTag = <<>>
    /\ node = NoNode
    /\ found = <<>>
    /\ foundFirst = Nil
    /\ ops = <<>>
    /\ chk = Nil
    /\ parsed2 = NoResult
    /\ node2 = NoNode
    /\ ptr = "nil"
    /\ held = <<>>
    /\ stack = <<>>
    /\ heap = <<>>
    /\ builders = <<>>
    /\ seen = <<>>
    /\ cls = NoClass

\* Parse(input)
CallParse ==
    /\ pc = "start"
    /\ parsed' = Parse(input)
    /\ pc' = "parsed"
    /\ UNCHANGED <<input, first, encoded, reparsed, bu, built,
                   n, tagRes, lenRes, lenBytes, tlvs, out,
                   argTag, node, found, foundFirst, ops, chk, parsed2,
                   node2, ptr, held, stack, heap, builders, seen, cls>>

\* parseFirstBerTLV(input); its callers never pass an empty buffer.
CallParseFirst ==
    /\ pc = "start"
    /\ Len(input) > 0
    /\ first' = parseFirstBerTLV(input)
    /\ pc' = "first"
    /\ UNCHANGED <<input, parsed, encoded, reparsed, bu, built,
                   n, tagRes, lenRes, lenBytes, tlvs, out,
                   argTag, node, found, foundFirst, ops, chk, parsed2,
                   node2, ptr, held, stack, heap, builders, seen, cls>>

\* parsed.Bytes() on the tree of a successful Parse
CallBytes ==
    /\ pc = "parsed"
    /\ parsed.err = Nil
    /\ encoded' = BerTLVsBytes(parsed.tlvs)
    /\ pc' = "encoded"
    /\ UNCHANGED <<input, parsed, first, reparsed, bu, built,
                   n, tagRes, lenRes, lenBytes, tlvs, out,
                   argTag, node, found, foundFirst, ops, chk, parsed2,
                   node2, ptr, held, stack, heap, builders, seen, cls>>

\* Parse(encoded)
CallReparse ==
    /\ pc = "encoded"
    /\ reparsed' = Parse(encoded)
    /\ pc' = "reparsed"
    /\ UNCHANGED <<input, parsed, first, encoded, bu, built,
                   n, tagRes, lenRes, lenBytes, tlvs, out,
                   argTag, node, found, foundFirst, ops, chk, parsed2,
                   node2, ptr, held, stack, heap, builders, seen, cls>>

\* Builder{}.AddRaw(input)
CallAddRaw ==
    /\ pc = "start"
    /\ bu' = AddRaw(bu, input)
    /\ pc' = "building"
    /\ UNCHANGED <<input, parsed, first, encoded, reparsed, built,
                   n, tagRes, lenRes, lenBytes, tlvs, out,
                   argTag, node, found, foundFirst, ops, chk, parsed2,
                   node2, ptr, held, stack, heap, builders, seen, cls>>

\* bu.BuildBerTLVs(), on the empty Builder or after AddRaw
CallBuildBerTLVs ==
    /\ pc \in {"start", "building"}
    /\ built' = BuildBerTLVs(bu)
    /\ pc' = "built"
    /\ UNCHANGED <<input, parsed, first, encoded, reparsed, bu,
                   n, tagRes, lenRes, lenBytes, tlvs, out,
                   argTag, node, found, foundFirst, ops, chk, parsed2,
                   node2, ptr, held, stack, heap, builders, seen, cls>>

Next ==
    \/ CallParse
    \/ CallParseFirst
    \/ CallBytes
    \/ CallReparse
    \/ CallAddRaw
    \/ CallBuildBerTLVs

Spec == Init /\ [][Next]_vars

(***************************************************************************)
(* SpecUnit: the tag and length codecs on their own.  A buffer is any      *)
(* first byte followed by at most MaxTail bytes; a length is any n the     *)
(* encoder can be asked for.                                               *)
(***************************************************************************)
\* The bytes after the first: Alphabet and both sides of the 0x80 bit.
TailBytes == Alphabet \cup {127, 255}

\* Buffers of more than three bytes.
LongTags == {<<31, 128, 129, 1>>, <<1, 2, 3, 4>>, <<31, 129, 128, 1, 0>>}

UnitInputs ==
    {<<>>} \cup { <<b0>> \o rest : b0 \in 0..255, rest \in SeqsOf(TailBytes, 0, MaxTail) }
        \cup LongTags

InitUnit ==
    /\ \/ pc = "bytes" /\ input \in UnitInputs /\ n = 0
       \/ pc = "len" /\ input = <<>> /\ n \in 0..MaxValueLen
    /\ parsed = NoResult
    /\ first = NoFirst
    /\ encoded = <<>>
    /\ reparsed = NoResult
    /\ bu = EmptyBuilder
    /\ built = NoResult
    /\ tagRes = NoTag
    /\ lenRes = NoLength
    /\ lenBytes = <<>>
    /\ tlvs = <<>>
    /\ out = <<>>
    /\ argTag = <<>>
    /\ node = NoNode
    /\ found = <<>>
    /\ foundFirst = Nil
    /\ ops = <<>>
    /\ chk = Nil
    /\ parsed2 = NoResult
    /\ node2 = NoNode
    /\ ptr = "nil"
    /\ held = <<>>
    /\ stack = <<>>
    /\ heap = <<>>
    /\ builders = <<>>
    /\ seen = <<>>
    /\ cls = NoClass

\* parseTag(input); its caller never passes an empty buffer.
CallParseTag ==
    /\ pc = "bytes"
    /\ Len(input) > 0
    /\ tagRes' = parseTag(input)
    /\ pc' = "tag"
    /\ UNCHANGED <<input, parsed, first, encoded, reparsed, bu, built,
                   n, lenRes, lenBytes, tlvs, out,
                   argTag, node, found, foundFirst, ops, chk, parsed2,
                   node2, ptr, held, stack, heap, builders, seen, cls>>

\* parseLength(input)
CallParseLength ==
    /\ pc = "bytes"
    /\ lenRes' = parseLength(input)
    /\ pc' = "length"
    /\ UNCHANGED <<input, parsed, first, encoded, reparsed, bu, built,
                   n, tagRes, lenBytes, tlvs, out,
                   argTag, node, found, foundFirst, ops, chk, parsed2,
                   node2, ptr, held, stack, heap, builders, seen, cls>>

\* buildLen(n)
CallBuildLen ==
    /\ pc = "len"
    /\ lenBytes' = buildLen(n)
    /\ pc' = "lenBuilt"
    /\ UNCHANGED <<input, parsed, first, encoded, reparsed, bu, built,
                   n, tagRes, lenRes, tlvs, out,
                   argTag, node, found, foundFirst, ops, chk, parsed2,
                   node2, ptr, held, stack, heap, builders, seen, cls>>

\* parseLength(buildLen(n))
CallParseBuiltLen ==
    /\ pc = "lenBuilt"
    /\ lenRes' = parseLength(lenBytes)
    /\ pc' = "lenParsed"
    /\ UNCHANGED <<input, parsed, first, encoded, reparsed, bu, built,
                   n, tagRes, lenBytes, tlvs, out,
                   argTag, node, found, foundFirst, ops, chk, parsed2,
                   node2, ptr, held, stack, heap, builders, seen, cls>>

\* BerTag(input).CheckEncoding()
CallCheckEncoding ==
    /\ pc = "bytes"
    /\ chk' = CheckEncoding(input)
    /\ pc' = "checked"
    /\ UNCHANGED <<input, parsed, first, encoded, reparsed, bu, built,
                   n, tagRes, lenRes, lenBytes, tlvs, out,
                   argTag, node, found, foundFirst, ops, parsed2, node2,
                   ptr, held, stack, heap, builders, seen, cls>>

\* BerTag(input).Class()
CallClass ==
    /\ pc = "bytes"
    /\ cls' = Class(input)
    /\ pc' = "classed"
    /\ UNCHANGED <<input, parsed, first, encoded, reparsed, bu, built,
                   n, tagRes, lenRes, lenBytes, tlvs, out,
                   argTag, node, found, foundFirst, ops, chk, parsed2, node2,
                   ptr, held, stack, heap, builders, seen>>

NextUnit ==
    \/ CallCheckEncoding
    \/ CallClass
    \/ CallParseTag
    \/ CallParseLength
    \/ CallBuildLen
    \/ CallParseBuiltLen

SpecUnit == InitUnit /\ [][NextUnit]_vars

(***************************************************************************)
(* SpecEncode: the encoder on nodes a caller holds.  Tag and Value are     *)
(* exported fields, so a node's children need not be the decode of its     *)
(* value.                                                                  *)
(***************************************************************************)
Leaf == [Tag |-> <<1>>, Value |-> <<2>>, children |-> <<>>]

NodeTags == {<<>>, <<1>>, <<33>>, <<31, 1>>, <<31, 128, 1>>, <<31, 128, 129, 1>>}

NodeValues == {<<>>, <<0>>, <<1, 0>>}

NodeChildren == {<<>>, <<Leaf>>}

SmallNodes == [Tag : NodeTags, Value : NodeValues, children : NodeChildren]

\* Value lengths at the edges of the length forms.
EdgeLengths == {127, 128, 255, 256, MaxValueLen}

LongNodes ==
    [Tag : {<<1>>, <<33>>}, Value : {Fill(l) : l \in EdgeLengths}, children : NodeChildren]

NodeSeqs == SeqsOf(SmallNodes, 0, MaxNodes) \cup {<<nd>> : nd \in LongNodes}

InitEncode ==
    /\ pc = "nodes"
    /\ tlvs \in NodeSeqs
    /\ out = <<>>
    /\ input = <<>>
    /\ parsed = NoResult
    /\ first = NoFirst
    /\ encoded = <<>>
    /\ reparsed = NoResult
    /\ bu = EmptyBuilder
    /\ built = NoResult
    /\ n = 0
    /\ tagRes = NoTag
    /\ lenRes = NoLength
    /\ lenBytes = <<>>
    /\ argTag = <<>>
    /\ node = NoNode
    /\ found = <<>>
    /\ foundFirst = Nil
    /\ ops = <<>>
    /\ chk = Nil
    /\ parsed2 = NoResult
    /\ node2 = NoNode
    /\ ptr = "nil"
    /\ held = <<>>
    /\ stack = <<>>
    /\ heap = <<>>
    /\ builders = <<>>
    /\ seen = <<>>
    /\ cls = NoClass

\* tlvs.Bytes()
CallBerTLVsBytes ==
    /\ pc = "nodes"
    /\ out' = BerTLVsBytes(tlvs)
    /\ pc' = "bytesOut"
    /\ UNCHANGED <<input, parsed, first, encoded, reparsed, bu, built,
                   n, tagRes, lenRes, lenBytes, tlvs,
                   argTag, node, found, foundFirst, ops, chk, parsed2,
                   node2, ptr, held, stack, heap, builders, seen, cls>>

\* tlvs[0].Bytes(): the receiver is a copy, the caller's node stays as it is.
CallBerTLVBytes ==
    /\ pc = "nodes"
    /\ Len(tlvs) = 1
    /\ out' = BerTLVBytes(tlvs[1])
    /\ pc' = "nodeBytes"
    /\ UNCHANGED <<input, parsed, first, encoded, reparsed, bu, built,
                   n, tagRes, lenRes, lenBytes, tlvs,
                   argTag, node, found, foundFirst, ops, chk, parsed2,
                   node2, ptr, held, stack, heap, builders, seen, cls>>

\* tlvs[0].BytesLength(), after tlvs[0].Bytes()
CallBytesLength ==
    /\ pc = "nodeBytes"
    /\ n' = BytesLength(tlvs[1])
    /\ pc' = "nodeLength"
    /\ UNCHANGED <<input, parsed, first, encoded, reparsed, bu, built,
                   tagRes, lenRes, lenBytes, tlvs, out,
                   argTag, node, found, foundFirst, ops, chk, parsed2,
                   node2, ptr, held, stack, heap, builders, seen, cls>>

NextEncode ==
    \/ CallBerTLVsBytes
    \/ CallBerTLVBytes
    \/ CallBytesLength

SpecEncode == InitEncode /\ [][NextEncode]_vars

(***************************************************************************)
(* SpecTruncate: the encoder on a node whose value is about 65535 bytes    *)
(* long.  The caller makes a value of n bytes, marks its first and last    *)
(* byte, and encodes BerTLV{Tag: argTag, Value: value}.                    *)
(***************************************************************************)
\* make([]byte, l) with value[0] = 1 and value[l-1] = 2.
MarkedValue(l) == [i \in 1..l |-> IF i = l THEN 2 ELSE IF i = 1 THEN 1 ELSE 0]

ValueLengths == (MaxValueLen - MaxOver)..(MaxValueLen + MaxOver)

InitTruncate ==
    /\ pc = "make"
    /\ argTag \in NodeTags
    /\ n \in ValueLengths
    /\ input = <<>>
    /\ out = <<>>
    /\ parsed = NoResult
    /\ first = NoFirst
    /\ encoded = <<>>
    /\ reparsed = NoResult
    /\ bu = EmptyBuilder
    /\ built = NoResult
    /\ tagRes = NoTag
    /\ lenRes = NoLength
    /\ lenBytes = <<>>
    /\ tlvs = <<>>
    /\ node = NoNode
    /\ found = <<>>
    /\ foundFirst = Nil
    /\ ops = <<>>
    /\ chk = Nil
    /\ parsed2 = NoResult
    /\ node2 = NoNode
    /\ ptr = "nil"
    /\ held = <<>>
    /\ stack = <<>>
    /\ heap = <<>>
    /\ builders = <<>>
    /\ seen = <<>>
    /\ cls = NoClass

\* BerTLV{Tag: argTag, Value: value}.Bytes(); input is the caller's value
\* after the call: the receiver is a copy, so cutting ber.Value leaves it.
CallBytesOfLong ==
    /\ pc = "make"
    /\ out' = BerTLVBytes([Tag |-> argTag, Value |-> MarkedValue(n), children |-> <<>>])
    /\ input' = MarkedValue(n)
    /\ pc' = "longBytes"
    /\ UNCHANGED <<parsed, first, encoded, reparsed, bu, built,
                   n, tagRes, lenRes, lenBytes, tlvs,
                   argTag, node, found, foundFirst, ops, chk, parsed2,
                   node2, ptr, held, stack, heap, builders, seen, cls>>

NextTruncate ==
    \/ CallBytesOfLong

SpecTruncate == InitTruncate /\ [][NextTruncate]_vars

(***************************************************************************)
(* SpecNew: a caller constructs a node from a tag and a value.             *)
(***************************************************************************)
\* Primitive and constructed tags, well-formed or not.
NewTags == {<<>>, <<1>>, <<31>>, <<33>>, <<63>>, <<31, 1>>, <<63, 1>>, <<33, 1>>,
            <<1, 2, 3, 4>>}

\* Values that hold nested TLVs, complete and broken, one or two levels deep.
NestedValues == {<<33, 2, 1, 0>>, <<33, 4, 33, 2, 1, 0>>, <<33, 3, 1, 1, 5>>,
                 <<33, 129, 2, 2, 0>>, <<33, 4, 1, 0, 2, 0>>, <<33, 3, 33, 1, 0>>,
                 <<33, 4, 33, 2, 1, 1>>, <<1, 2, 33, 0>>,
                 <<1, 0, 33, 4, 33, 2, 1, 1>>, <<1, 0, 33, 4, 33, 2, 31, 0>>,
                 <<33, 5, 1, 0, 33, 1, 2>>, <<33, 6, 1, 0, 33, 2, 1, 0>>}

\* Values that end inside a 3-byte tag, inside a 2- or 3-byte length, or one
\* byte short of the declared length.
EdgeValues == {<<31, 129, 1, 0>>, <<31, 128, 1, 129>>, <<31, 1, 130, 0>>,
               <<31, 128, 1, 130, 0>>, <<1, 130, 0, 1, 7>>, <<1, 130, 0, 2, 7>>,
               <<63, 129, 1, 129, 2, 1, 0>>, <<63, 129, 1, 129, 3, 1, 0>>,
               <<33, 3, 31, 129, 1>>, <<33, 2, 1, 129>>}

NewValues ==
    SeqsOf(Alphabet, 0, MaxValue) \cup NestedValues \cup EdgeValues \cup LongInputs

InitNew ==
    /\ pc = "start"
    /\ argTag \in NewTags
    /\ input \in NewValues
    /\ node = NoNode
    /\ n = 0
    /\ out = <<>>
    /\ parsed = NoResult
    /\ first = NoFirst
    /\ encoded = <<>>
    /\ reparsed = NoResult
    /\ bu = EmptyBuilder
    /\ built = NoResult
    /\ tagRes = NoTag
    /\ lenRes = NoLength
    /\ lenBytes = <<>>
    /\ tlvs = <<>>
    /\ found = <<>>
    /\ foundFirst = Nil
    /\ ops = <<>>
    /\ chk = Nil
    /\ parsed2 = NoResult
    /\ node2 = NoNode
    /\ ptr = "nil"
    /\ held = <<>>
    /\ stack = <<>>
    /\ heap = <<>>
    /\ builders = <<>>
    /\ seen = <<>>
    /\ cls = NoClass

\* NewBerTLV(argTag, input)
CallNewBerTLV ==
    /\ pc = "start"
    /\ node' = NewBerTLV(argTag, input)
    /\ pc' = "newDone"
    /\ UNCHANGED <<input, parsed, first, encoded, reparsed, bu, built,
                   n, tagRes, lenRes, lenBytes, tlvs, out,
                   argTag, found, foundFirst, ops, chk, parsed2, node2,
                   ptr, held, stack, heap, builders, seen, cls>>

\* The second Parse on the buffer the first one was called on.
CallParse2 ==
    /\ pc = "parsed"
    /\ parsed2' = Parse2(input)
    /\ pc' = "parsedBoth"
    /\ UNCHANGED <<input, parsed, first, encoded, reparsed, bu, built,
                   n, tagRes, lenRes, lenBytes, tlvs, out,
                   argTag, node, found, foundFirst, ops, chk, node2, ptr,
                   held, stack, heap, builders, seen, cls>>

\* The second NewBerTLV on the arguments the first one was called on.
CallNewBerTLV2 ==
    /\ pc = "newDone"
    /\ node2' = NewBerTLV2(argTag, input)
    /\ pc' = "newBoth"
    /\ UNCHANGED <<input, parsed, first, encoded, reparsed, bu, built,
                   n, tagRes, lenRes, lenBytes, tlvs, out,
                   argTag, node, found, foundFirst, ops, chk, parsed2, ptr,
                   held, stack, heap, builders, seen, cls>>

NextNew ==
    \/ CallNewBerTLV
    \/ CallParse
    \/ CallParse2
    \/ CallNewBerTLV2

SpecNew == InitNew /\ [][NextNew]_vars

(***************************************************************************)
(* SpecBuilder: a chain of at most MaxOps calls on a Builder, each on the  *)
(* Builder the call before returned, and then BuildBerTLVs.  ops records   *)
(* the calls made.                                                         *)
(***************************************************************************)
\* A value of l bytes 0x80 with the last byte 0x02.
HighValue(l) == [i \in 1..l |-> IF i = l THEN 2 ELSE 128]

\* The arguments of AddEmpty, AddByte, AddBytes and AddRaw; a call is
\* recorded in ops by its name and the index of its arguments here.
EmptyArgs == << <<10>>, <<33>> >>

ByteArgs == << <<<<10>>, 255>>, <<<<31, 1>>, 0>> >>

BytesArgs ==
    << <<<<10>>, <<1, 2>>>>, <<<<10>>, <<>>>>, <<<<31>>, <<0>>>>,
       <<<<33>>, <<1, 1, 0>>>>, <<<<33>>, <<1, 2, 0>>>>,
       <<<<10>>, HighValue(MaxValueLen + 1)>> >>

RawArgs == << <<10, 1, 255>>, <<1>> >>

InitBuilder ==
    /\ pc = "building"
    /\ bu = EmptyBuilder
    /\ ops = <<>>
    /\ built = NoResult
    /\ input = <<>>
    /\ argTag = <<>>
    /\ node = NoNode
    /\ n = 0
    /\ out = <<>>
    /\ parsed = NoResult
    /\ first = NoFirst
    /\ encoded = <<>>
    /\ reparsed = NoResult
    /\ tagRes = NoTag
    /\ lenRes = NoLength
    /\ lenBytes = <<>>
    /\ tlvs = <<>>
    /\ found = <<>>
    /\ foundFirst = Nil
    /\ chk = Nil
    /\ parsed2 = NoResult
    /\ node2 = NoNode
    /\ ptr = "nil"
    /\ held = <<>>
    /\ stack = <<>>
    /\ heap = <<>>
    /\ builders = <<>>
    /\ seen = <<>>
    /\ cls = NoClass

\* bu = *bu.AddByte(tag, val)
CallAddByte ==
    /\ pc = "building"
    /\ Len(ops) < MaxOps
    /\ \E k \in 1..Len(ByteArgs) :
        /\ bu' = AddByte(bu, ByteArgs[k][1], ByteArgs[k][2])
        /\ ops' = Append(ops, [op |-> "AddByte", arg |-> k])
    /\ UNCHANGED <<pc, input, parsed, first, encoded, reparsed, built,
                   n, tagRes, lenRes, lenBytes, tlvs, out,
                   argTag, node, found, foundFirst, chk, parsed2, node2,
                   ptr, held, stack, heap, builders, seen, cls>>

\* bu = *bu.AddBytes(tag, v)
CallAddBytes ==
    /\ pc = "building"
    /\ Len(ops) < MaxOps
    /\ \E k \in 1..Len(BytesArgs) :
        /\ bu' = AddBytes(bu, BytesArgs[k][1], BytesArgs[k][2])
        /\ ops' = Append(ops, [op |-> "AddBytes", arg |-> k])
    /\ UNCHANGED <<pc, input, parsed, first, encoded, reparsed, built,
                   n, tagRes, lenRes, lenBytes, tlvs, out,
                   argTag, node, found, foundFirst, chk, parsed2, node2,
                   ptr, held, stack, heap, builders, seen, cls>>

\* bu = *bu.AddEmpty(tag)
CallAddEmpty ==
    /\ pc = "building"
    /\ Len(ops) < MaxOps
    /\ \E k \in 1..Len(EmptyArgs) :
        /\ bu' = AddEmpty(bu, EmptyArgs[k])
        /\ ops' = Append(ops, [op |-> "AddEmpty", arg |-> k])
    /\ UNCHANGED <<pc, input, parsed, first, encoded, reparsed, built,
                   n, tagRes, lenRes, lenBytes, tlvs, out,
                   argTag, node, found, foundFirst, chk, parsed2, node2,
                   ptr, held, stack, heap, builders, seen, cls>>

\* bu = *bu.AddRaw(b)
CallAddRawBytes ==
    /\ pc = "building"
    /\ Len(ops) < MaxOps
    /\ \E k \in 1..Len(RawArgs) :
        /\ bu' = AddRaw(bu, RawArgs[k])
        /\ ops' = Append(ops, [op |-> "AddRaw", arg |-> k])
    /\ UNCHANGED <<pc, input, parsed, first, encoded, reparsed, built,
                   n, tagRes, lenRes, lenBytes, tlvs, out,
                   argTag, node, found, foundFirst, chk, parsed2, node2,
                   ptr, held, stack, heap, builders, seen, cls>>

NextBuilder ==
    \/ CallAddByte
    \/ CallAddBytes
    \/ CallAddEmpty
    \/ CallAddRawBytes
    \/ CallBuildBerTLVs

SpecBuilder == InitBuilder /\ [][NextBuilder]_vars

(***************************************************************************)
(* SpecFind: lookups on a sequence of siblings and on its first node.      *)
(* A node is as Parse returns it (its value is the encoding of its         *)
(* children), or such a node after the caller assigned its exported Tag,   *)
(* or the zero BerTLV{}.                                                   *)
(***************************************************************************)
GrandChild == [Tag |-> <<1>>, Value |-> <<3>>, children |-> <<>>]

Kids ==
    { [Tag |-> <<1>>, Value |-> <<2>>, children |-> <<>>],
      [Tag |-> <<2>>, Value |-> <<>>, children |-> <<>>],
      [Tag |-> <<33>>, Value |-> <<1, 1, 3>>, children |-> <<GrandChild>>] }

FindNodes ==
    { [Tag |-> t, Value |-> BerTLVsBytes(ch), children |-> ch] :
        t \in {<<1>>, <<33>>}, ch \in SeqsOf(Kids, 0, MaxKids) } \cup {ZeroTLV}

FindTags == {<<>>, <<1>>, <<2>>, <<33>>}

InitFind ==
    /\ pc = "find"
    /\ tlvs \in SeqsOf(FindNodes, 0, MaxSiblings)
    /\ argTag \in FindTags
    /\ found = <<>>
    /\ foundFirst = Nil
    /\ input = <<>>
    /\ node = NoNode
    /\ n = 0
    /\ out = <<>>
    /\ parsed = NoResult
    /\ first = NoFirst
    /\ encoded = <<>>
    /\ reparsed = NoResult
    /\ bu = EmptyBuilder
    /\ built = NoResult
    /\ tagRes = NoTag
    /\ lenRes = NoLength
    /\ lenBytes = <<>>
    /\ ops = <<>>
    /\ chk = Nil
    /\ parsed2 = NoResult
    /\ node2 = NoNode
    /\ ptr = "nil"
    /\ held = <<>>
    /\ stack = <<>>
    /\ heap = <<>>
    /\ builders = <<>>
    /\ seen = <<>>
    /\ cls = NoClass

\* tlvs.FindAllWithTag(argTag)
CallFindAllWithTag ==
    /\ pc = "find"
    /\ found' = FindAllWithTag(tlvs, argTag)
    /\ pc' = "foundAll"
    /\ UNCHANGED <<input, parsed, first, encoded, reparsed, bu, built,
                   n, tagRes, lenRes, lenBytes, tlvs, out,
                   argTag, node, foundFirst, ops, chk, parsed2, node2, ptr,
                   held, stack, heap, builders, seen, cls>>

\* tlvs.FindFirstWithTag(argTag), after tlvs.FindAllWithTag(argTag)
CallFindFirstWithTag ==
    /\ pc = "foundAll"
    /\ foundFirst' = FindFirstWithTag(tlvs, argTag)
    /\ ptr' = FindFirstWithTagPtr(tlvs, argTag)
    /\ pc' = "foundBoth"
    /\ UNCHANGED <<input, parsed, first, encoded, reparsed, bu, built,
                   n, tagRes, lenRes, lenBytes, tlvs, out,
                   argTag, node, found, ops, chk, parsed2, node2,
                   held, stack, heap, builders, seen, cls>>

\* tlvs[0].Children(argTag)
CallChildren ==
    /\ pc = "find"
    /\ Len(tlvs) > 0
    /\ found' = Children(tlvs[1], argTag)
    /\ pc' = "children"
    /\ UNCHANGED <<input, parsed, first, encoded, reparsed, bu, built,
                   n, tagRes, lenRes, lenBytes, tlvs, out,
                   argTag, node, foundFirst, ops, chk, parsed2, node2, ptr,
                   held, stack, heap, builders, seen, cls>>

\* tlvs[0].FirstChild(argTag), after tlvs[0].Children(argTag)
CallFirstChild ==
    /\ pc = "children"
    /\ foundFirst' = FirstChild(tlvs[1], argTag)
    /\ ptr' = FirstChildPtr(tlvs[1], argTag)
    /\ pc' = "childrenBoth"
    /\ UNCHANGED <<input, parsed, first, encoded, reparsed, bu, built,
                   n, tagRes, lenRes, lenBytes, tlvs, out,
                   argTag, node, found, ops, chk, parsed2, node2,
                   held, stack, heap, builders, seen, cls>>

\* The tags and values a caller assigns to a node it was handed.
AssignedBytes == {<<>>, <<7>>}

\* The caller assigns a new Tag or Value through the pointer it was handed:
\* p.Tag = x or p.Value = x.  The element of the children array changes
\* with it when that is what p points at.
AssignThroughPointer ==
    /\ pc \in {"foundBoth", "childrenBoth"}
    /\ foundFirst # Nil
    /\ \E f \in {"Tag", "Value"}, x \in AssignedBytes :
          LET p == [foundFirst[1] EXCEPT ![f] = x]
          IN  /\ foundFirst' = <<p>>
              /\ tlvs' = IF ptr = "children[0]"
                            THEN [tlvs EXCEPT ![1].children[1] = p]
                            ELSE tlvs
    /\ held' = tlvs
    /\ pc' = "assigned"
    /\ UNCHANGED <<input, parsed, first, encoded, reparsed, bu, built,
                   n, tagRes, lenRes, lenBytes, out,
                   argTag, node, found, ops, chk, parsed2, node2, ptr,
                   stack, heap, builders, seen, cls>>

NextFind ==
    \/ CallFindAllWithTag
    \/ CallFindFirstWithTag
    \/ CallChildren
    \/ CallFirstChild
    \/ AssignThroughPointer

SpecFind == InitFind /\ [][NextFind]_vars

(***************************************************************************)
(* SpecShare: a program makes Add calls on the builder values it holds.    *)
(* builders are the values obtained so far, the zero Builder first, and    *)
(* seen[j] is what builders[j].Bytes() returned when it was obtained.      *)
(***************************************************************************)
ShareTags == {<<11>>}

ShareValues == {<<3, 4>>}

InitShare ==
    /\ pc = "sharing"
    /\ heap = <<>>
    /\ builders = <<NilSlice>>
    /\ seen = << <<>> >>
    /\ bu = EmptyBuilder
    /\ ops = <<>>
    /\ built = NoResult
    /\ input = <<>>
    /\ argTag = <<>>
    /\ node = NoNode
    /\ n = 0
    /\ out = <<>>
    /\ parsed = NoResult
    /\ first = NoFirst
    /\ encoded = <<>>
    /\ reparsed = NoResult
    /\ tagRes = NoTag
    /\ lenRes = NoLength
    /\ lenBytes = <<>>
    /\ tlvs = <<>>
    /\ found = <<>>
    /\ foundFirst = Nil
    /\ chk = Nil
    /\ parsed2 = NoResult
    /\ node2 = NoNode
    /\ ptr = "nil"
    /\ held = <<>>
    /\ stack = <<>>
    /\ cls = NoClass

\* r := builders[j].AddByte(tag, val)
ShareAddByte ==
    /\ Len(builders) <= MaxAdds
    /\ \E j \in 1..Len(builders), spare \in {0, MaxSpare}, tag \in ShareTags :
          LET r == AppendAll(heap, builders[j], AddByteAppends(tag, 7), spare)
          IN  /\ heap' = r.heap
              /\ builders' = Append(builders, r.slice)
              /\ seen' = Append(seen, SliceBytes(r.heap, r.slice))
    /\ UNCHANGED <<pc, input, parsed, first, encoded, reparsed, bu, built,
                   n, tagRes, lenRes, lenBytes, tlvs, out,
                   argTag, node, found, foundFirst, ops, chk, parsed2, node2,
                   ptr, held, stack, cls>>

\* r := builders[j].AddBytes(tag, v)
ShareAddBytes ==
    /\ Len(builders) <= MaxAdds
    /\ \E j \in 1..Len(builders), spare \in {0, MaxSpare}, tag \in ShareTags, v \in ShareValues :
          LET r == AppendAll(heap, builders[j], AddBytesAppends(tag, v), spare)
          IN  /\ heap' = r.heap
              /\ builders' = Append(builders, r.slice)
              /\ seen' = Append(seen, SliceBytes(r.heap, r.slice))
    /\ UNCHANGED <<pc, input, parsed, first, encoded, reparsed, bu, built,
                   n, tagRes, lenRes, lenBytes, tlvs, out,
                   argTag, node, found, foundFirst, ops, chk, parsed2, node2,
                   ptr, held, stack, cls>>

\* r := builders[j].AddEmpty(tag)
ShareAddEmpty ==
    /\ Len(builders) <= MaxAdds
    /\ \E j \in 1..Len(builders), spare \in {0, MaxSpare}, tag \in ShareTags :
          LET r == AppendAll(heap, builders[j], AddEmptyAppends(tag), spare)
          IN  /\ heap' = r.heap
              /\ builders' = Append(builders, r.slice)
              /\ seen' = Append(seen, SliceBytes(r.heap, r.slice))
    /\ UNCHANGED <<pc, input, parsed, first, encoded, reparsed, bu, built,
                   n, tagRes, lenRes, lenBytes, tlvs, out,
                   argTag, node, found, foundFirst, ops, chk, parsed2, node2,
                   ptr, held, stack, cls>>

\* r := builders[j].AddRaw(b)
ShareAddRaw ==
    /\ Len(builders) <= MaxAdds
    /\ \E j \in 1..Len(builders), spare \in {0, MaxSpare}, v \in ShareValues :
          LET r == AppendAll(heap, builders[j], AddRawAppends(v), spare)
          IN  /\ heap' = r.heap
              /\ builders' = Append(builders, r.slice)
              /\ seen' = Append(seen, SliceBytes(r.heap, r.slice))
    /\ UNCHANGED <<pc, input, parsed, first, encoded, reparsed, bu, built,
                   n, tagRes, lenRes, lenBytes, tlvs, out,
                   argTag, node, found, foundFirst, ops, chk, parsed2, node2,
                   ptr, held, stack, cls>>

NextShare ==
    \/ ShareAddByte
    \/ ShareAddBytes
    \/ ShareAddEmpty
    \/ ShareAddRaw

SpecShare == InitShare /\ [][NextShare]_vars

(***************************************************************************)
(* SpecLoop: the decode loops of Parse, NewBerTLV and parseFirstBerTLV,    *)
(* one iteration a step.  stack holds a frame for each loop that is        *)
(* running, the outermost first: its buffer b, the offset i of the next    *)
(* TLV in it and, while the loop over the children of that TLV runs, the   *)
(* length lenParsed the TLV will report.  A call runs on to its return,    *)
(* which SpecLoopFair states.                                              *)
(***************************************************************************)
LoopTags == {<<1>>, <<33>>}

\* The buffers the loops run over: short, nested, and cut off inside a
\* tag, a length or a value.
LoopInputs == SeqsOf(Alphabet, 0, MaxValue) \cup NestedValues \cup EdgeValues

\* A variant: the offset moves on by one byte.
Advance_ByOne(i, lenParsed) == i + 1

\* index += lenParsed, valueIndex += lenParsed
Advance(i, lenParsed) == i + lenParsed

\* parseFirstBerTLV up to the value: the tag, the offset leftIndex of the
\* value and its declared length, or a failure.
ParseHeader(b) ==
    LET t == parseTag(b)
        l == parseLength(SliceFrom(b, Len(t.tag)))
    IN  IF t.err # Nil \/ l.err # Nil
            THEN [ok |-> FALSE, tag |-> <<>>, leftIndex |-> 0, length |-> 0]
        ELSE IF indicatedEndIndex(Len(t.tag) + l.lLen, l.length) > Len(b) - 1
            THEN [ok |-> FALSE, tag |-> t.tag, leftIndex |-> 0, length |-> 0]
        ELSE [ok |-> TRUE, tag |-> t.tag, leftIndex |-> Len(t.tag) + l.lLen,
              length |-> l.length]

\* The frame of a loop that starts on buffer b.
Frame(b) == [b |-> b, i |-> 0, lenParsed |-> 0]

\* The innermost loop that is running.
Top == stack[Len(stack)]

InitLoop ==
    /\ pc = "start"
    /\ input = <<>>
    /\ argTag = <<>>
    /\ stack = <<>>
    /\ tlvs = <<>>
    /\ parsed = NoResult
    /\ node = NoNode
    /\ first = NoFirst
    /\ encoded = <<>>
    /\ reparsed = NoResult
    /\ bu = EmptyBuilder
    /\ built = NoResult
    /\ n = 0
    /\ tagRes = NoTag
    /\ lenRes = NoLength
    /\ lenBytes = <<>>
    /\ out = <<>>
    /\ found = <<>>
    /\ foundFirst = Nil
    /\ ops = <<>>
    /\ chk = Nil
    /\ parsed2 = NoResult
    /\ node2 = NoNode
    /\ ptr = "nil"
    /\ held = <<>>
    /\ heap = <<>>
    /\ builders = <<>>
    /\ seen = <<>>
    /\ cls = NoClass

\* Parse(b) is called and runs up to its loop.
EnterParse ==
    /\ pc = "start"
    /\ \E b \in LoopInputs :
          /\ input' = b
          /\ IF Len(b) = 0
                THEN /\ pc' = "failed"
                     /\ stack' = stack
                ELSE /\ pc' = "parseLoop"
                     /\ stack' = <<Frame(b)>>
    /\ argTag' = argTag
    /\ UNCHANGED <<parsed, first, encoded, reparsed, bu, built,
                   n, tagRes, lenRes, lenBytes, tlvs, out,
                   node, found, foundFirst, ops, chk, parsed2, node2,
                   ptr, held, heap, builders, seen, cls>>

\* NewBerTLV(t, v) is called and runs up to its loop.
EnterNewBerTLV ==
    /\ pc = "start"
    /\ \E t \in LoopTags, v \in LoopInputs :
          /\ argTag' = t
          /\ input' = v
          /\ IF ~IsConstructed(t)
                THEN /\ pc' = "returned"
                     /\ stack' = stack
                ELSE /\ pc' = "newLoop"
                     /\ stack' = <<Frame(v)>>
    /\ UNCHANGED <<parsed, first, encoded, reparsed, bu, built,
                   n, tagRes, lenRes, lenBytes, tlvs, out,
                   node, found, foundFirst, ops, chk, parsed2, node2,
                   ptr, held, heap, builders, seen, cls>>

\* One iteration of the innermost loop calls parseFirstBerTLV on the rest
\* of its buffer: the call fails, and every loop with it; or it returns a
\* TLV without children and the offset moves on; or it enters the loop
\* over the children of a constructed TLV.
Iterate ==
    /\ pc \in {"parseLoop", "newLoop"}
    /\ Top.i < Len(Top.b)
    /\ \E h \in {ParseHeader(SliceFrom(Top.b, Top.i))} :
          IF ~h.ok
             THEN /\ pc' = "failed"
                  /\ stack' = <<>>
          ELSE IF h.length = 0
             THEN /\ pc' = pc
                  /\ stack' = [stack EXCEPT ![Len(stack)].i = Advance(@, h.leftIndex)]
          ELSE IF ~IsConstructed(h.tag)
             THEN /\ pc' = pc
                  /\ stack' = [stack EXCEPT
                                  ![Len(stack)].i = Advance(@, h.leftIndex + h.length)]
          ELSE /\ pc' = pc
               /\ stack' = Append([stack EXCEPT
                                      ![Len(stack)].lenParsed = h.leftIndex + h.length],
                                  Frame(Slice(SliceFrom(Top.b, Top.i), h.leftIndex,
                                              h.leftIndex + h.length)))
    /\ UNCHANGED <<input, argTag, heap, builders, seen, cls>>
    /\ UNCHANGED <<parsed, first, encoded, reparsed, bu, built,
                   n, tagRes, lenRes, lenBytes, tlvs, out,
                   node, found, foundFirst, ops, chk, parsed2, node2,
                   ptr, held, heap, builders, seen, cls>>

\* The loop over the children is left: parseFirstBerTLV returns to the loop
\* that called it, whose offset moves on.
ReturnChild ==
    /\ pc \in {"parseLoop", "newLoop"}
    /\ Len(stack) > 1
    /\ ~(Top.i < Len(Top.b))
    /\ stack' = [SubSeq(stack, 1, Len(stack) - 1) EXCEPT
                    ![Len(stack) - 1].i = Advance(@, stack[Len(stack) - 1].lenParsed),
                    ![Len(stack) - 1].lenParsed = 0]
    /\ UNCHANGED <<pc, input, argTag, heap, builders, seen, cls>>
    /\ UNCHANGED <<parsed, first, encoded, reparsed, bu, built,
                   n, tagRes, lenRes, lenBytes, tlvs, out,
                   node, found, foundFirst, ops, chk, parsed2, node2,
                   ptr, held, heap, builders, seen, cls>>

\* The loop of Parse or NewBerTLV is left and the result returned.
ReturnResult ==
    /\ pc \in {"parseLoop", "newLoop"}
    /\ Len(stack) = 1
    /\ ~(Top.i < Len(Top.b))
    /\ pc' = "returned"
    /\ stack' = <<>>
    /\ UNCHANGED <<input, argTag, heap, builders, seen, cls>>
    /\ UNCHANGED <<parsed, first, encoded, reparsed, bu, built,
                   n, tagRes, lenRes, lenBytes, tlvs, out,
                   node, found, foundFirst, ops, chk, parsed2, node2,
                   ptr, held, heap, builders, seen, cls>>

NextLoop ==
    \/ EnterParse
    \/ EnterNewBerTLV
    \/ Iterate
    \/ ReturnChild
    \/ ReturnResult

SpecLoop == InitLoop /\ [][NextLoop]_vars

\* A call that has been entered runs on until it returns.
SpecLoopFair == SpecLoop /\ WF_vars(NextLoop)

(***************************************************************************)
(* SpecBuffer: the caller writes to its buffer after Parse or NewBerTLV    *)
(* has returned.  A Value is the slice b[leftIndex : leftIndex+length] of  *)
(* the buffer it was decoded from, so it is described by the offsets lo    *)
(* and hi of that slice in the caller's buffer; a Tag is a new slice.      *)
(***************************************************************************)
\* A variant: every Value is a copy, which a write to the buffer leaves
\* alone.
ViewValues_Copied(forest, regions, buf) == forest

\* Where the Values of the TLVs decoded from b, from index on, lie in the
\* caller's buffer, in which b starts at offset base.
RECURSIVE ValueRegions(_, _, _)
ValueRegions(b, base, i) ==
    IF ~(i < Len(b)) THEN <<>>
    ELSE LET h     == ParseHeader(SliceFrom(b, i))
             lo    == base + i + h.leftIndex
             value == Slice(b, i + h.leftIndex, i + h.leftIndex + h.length)
         IN  <<[lo |-> lo, hi |-> lo + h.length,
                children |-> IF h.length > 0 /\ IsConstructed(h.tag)
                                THEN ValueRegions(value, lo, 0) ELSE <<>>]>>
             \o ValueRegions(b, base, i + h.leftIndex + h.length)

\* The forest as it reads when the caller's buffer holds buf: each Value is
\* read through its slice.
RECURSIVE ViewValues(_, _, _)
ViewValues(forest, regions, buf) ==
    [k \in 1..Len(forest) |->
        [Tag      |-> forest[k].Tag,
         Value    |-> Slice(buf, regions[k].lo, regions[k].hi),
         children |-> ViewValues(forest[k].children, regions[k].children, buf)]]

\* The bytes a caller writes.
WrittenBytes == {0, 255}

InitBuffer ==
    /\ pc = "start"
    /\ argTag \in LoopTags
    /\ input \in LoopInputs
    /\ node = NoNode
    /\ n = 0
    /\ out = <<>>
    /\ parsed = NoResult
    /\ first = NoFirst
    /\ encoded = <<>>
    /\ reparsed = NoResult
    /\ bu = EmptyBuilder
    /\ built = NoResult
    /\ tagRes = NoTag
    /\ lenRes = NoLength
    /\ lenBytes = <<>>
    /\ tlvs = <<>>
    /\ found = <<>>
    /\ foundFirst = Nil
    /\ ops = <<>>
    /\ chk = Nil
    /\ parsed2 = NoResult
    /\ node2 = NoNode
    /\ ptr = "nil"
    /\ held = <<>>
    /\ stack = <<>>
    /\ heap = <<>>
    /\ builders = <<>>
    /\ seen = <<>>
    /\ cls = NoClass

\* b[k] = x, after Parse(b) has returned a tree: held is the tree as it
\* read before the write, tlvs as it reads after.
OverwriteParsed ==
    /\ pc = "parsed"
    /\ parsed.err = Nil
    /\ \E k \in 1..Len(input), x \in WrittenBytes :
          /\ input' = [input EXCEPT ![k] = x]
          /\ tlvs' = ViewValues(parsed.tlvs, ValueRegions(input, 0, 0), input')
    /\ held' = parsed.tlvs
    /\ pc' = "overwritten"
    /\ UNCHANGED <<parsed, first, encoded, reparsed, bu, built,
                   n, tagRes, lenRes, lenBytes, out,
                   argTag, node, found, foundFirst, ops, chk, parsed2, node2,
                   ptr, stack, heap, builders, seen, cls>>

\* v[k] = x, after NewBerTLV(tag, v) has returned a node, whose Value is v.
OverwriteNew ==
    /\ pc = "newDone"
    /\ node.err = Nil
    /\ \E k \in 1..Len(input), x \in WrittenBytes :
          /\ input' = [input EXCEPT ![k] = x]
          /\ tlvs' = ViewValues(node.berTLV,
                                <<[lo |-> 0, hi |-> Len(input),
                                   children |-> IF IsConstructed(argTag)
                                                   THEN ValueRegions(input, 0, 0)
                                                   ELSE <<>>]>>,
                                input')
    /\ held' = node.berTLV
    /\ pc' = "overwritten"
    /\ UNCHANGED <<parsed, first, encoded, reparsed, bu, built,
                   n, tagRes, lenRes, lenBytes, out,
                   argTag, node, found, foundFirst, ops, chk, parsed2, node2,
                   ptr, stack, heap, builders, seen, cls>>

NextBuffer ==
    \/ CallParse
    \/ CallNewBerTLV
    \/ OverwriteParsed
    \/ OverwriteNew

SpecBuffer == InitBuffer /\ [][NextBuffer]_vars

(***************************************************************************)
(* Properties.                                                             *)
(***************************************************************************)
\* The tag and the length field at the start of a buffer, as the decoder
\* reads them.
TagOf(b) == parseTag(b)

LengthOf(b) == parseLength(SliceFrom(b, Len(parseTag(b).tag)))

HeaderParses(b) == Len(b) > 0 /\ TagOf(b).err = Nil /\ LengthOf(b).err = Nil

\* Tag length + length-bytes length + declared length.
TotalLen(b) == Len(TagOf(b).tag) + LengthOf(b).lLen + LengthOf(b).length

\* Some TLV of the buffer, met while decoding it from the left, fails to
\* decode (a TLV fails when anything nested in it fails).
RECURSIVE SomeTLVFails(_)
SomeTLVFails(b) ==
    /\ Len(b) > 0
    /\ LET r == parseFirstBerTLV(b)
       IN  r.err # Nil \/ SomeTLVFails(SliceFrom(b, r.lenParsed))

\* The first TLV is constructed, in bounds, and its non-empty value is not
\* a valid sequence of child TLVs.
FirstHasInvalidContent(b) ==
    /\ HeaderParses(b)
    /\ TotalLen(b) <= Len(b)
    /\ IsConstructed(TagOf(b).tag)
    /\ LengthOf(b).length > 0
    /\ SomeTLVFails(SubSeq(b, Len(TagOf(b).tag) + LengthOf(b).lLen + 1, TotalLen(b)))

\* Every node of a forest, at every depth.
RECURSIVE AllNodes(_)
AllNodes(forest) ==
    UNION { {forest[i]} \cup AllNodes(forest[i].children) : i \in 1..Len(forest) }

\* C1: round trip.  Whenever Parse succeeded on the input with tree T,
\* Parse of T.Bytes() succeeds and returns a tree equal to T in tags,
\* values and children at every depth.
C1_RoundTrip ==
    pc = "reparsed" => reparsed.err = Nil /\ reparsed.tlvs = parsed.tlvs

\* A nested tree whose encoding differs from the bytes it was decoded from
\* has made the round trip.
C1_Witness ==
    /\ pc = "reparsed"
    /\ reparsed.tlvs = parsed.tlvs
    /\ encoded # input
    /\ \E i \in 1..Len(parsed.tlvs) : parsed.tlvs[i].children # <<>>

\* C2: decode is all-or-nothing.  If any TLV fails to decode, at top level
\* or nested in a constructed TLV, Parse returns an error together with an
\* empty result, never the TLVs decoded before the failure.
C2_AllOrNothing ==
    pc = "parsed" =>
        /\ parsed.err # Nil => parsed.tlvs = <<>>
        /\ SomeTLVFails(input) => parsed.err # Nil /\ parsed.tlvs = <<>>
        /\ FirstHasInvalidContent(input) => parsed.err # Nil /\ parsed.tlvs = <<>>

\* Parse failed after it had decoded a first TLV.
C2_Witness ==
    /\ pc = "parsed"
    /\ parsed.err # Nil
    /\ parsed.tlvs = <<>>
    /\ parseFirstBerTLV(input).err = Nil

\* C3: Parse on a zero-length buffer returns an error and no nodes, and so
\* does BuildBerTLVs on a Builder with no accumulated bytes.
C3_EmptyInput ==
    /\ (pc = "parsed" /\ Len(input) = 0) => parsed.err # Nil /\ parsed.tlvs = <<>>
    /\ (pc = "built" /\ Len(bu.bytes) = 0) => built.err # Nil /\ built.tlvs = <<>>

\* The empty Builder was finalized and reported the error.
C3_Witness ==
    /\ pc = "built"
    /\ bu = EmptyBuilder
    /\ built.err # Nil

\* C4: a TLV whose declared length is 0 decodes, whatever its tag, to a
\* node with the parsed tag, an empty value and no children, consuming
\* exactly the tag bytes plus the length bytes; in a decoded tree every
\* node with an empty value, at any depth, has no children.
C4_ZeroLength ==
    /\ (pc = "first" /\ HeaderParses(input) /\ LengthOf(input).length = 0) =>
            /\ first.err = Nil
            /\ first.berTLV = [Tag |-> TagOf(input).tag, Value |-> <<>>, children |-> <<>>]
            /\ first.lenParsed = Len(TagOf(input).tag) + LengthOf(input).lLen
    /\ (pc = "parsed" /\ parsed.err = Nil) =>
            \A nd \in AllNodes(parsed.tlvs) : nd.Value = <<>> => nd.children = <<>>

\* A constructed tag with declared length 0 was decoded from a buffer
\* holding exactly that TLV.
C4_Witness ==
    /\ pc = "first"
    /\ first.err = Nil
    /\ IsConstructed(first.berTLV.Tag)
    /\ first.berTLV.Value = <<>>
    /\ first.lenParsed = Len(input)

\* C5 as stated: decoding one TLV fails exactly when tag length +
\* length-bytes length + declared length exceeds the bytes of the buffer.
C5_FailsExactlyWhenOutOfBounds ==
    (pc = "first" /\ HeaderParses(input)) =>
        (first.err # Nil <=> TotalLen(input) > Len(input))

\* C5, amended: once tag and length field are parsed, decoding one TLV
\* fails with the out-of-bounds error exactly when tag length +
\* length-bytes length + declared length exceeds the bytes of the buffer;
\* a TLV in bounds fails only when its tag is constructed and its
\* non-empty value is not a valid sequence of child TLVs; on success the
\* value is exactly the declared-length bytes after the length field and
\* the consumed count is tag length + length-bytes length + declared
\* length.
C5_OutOfBounds ==
    (pc = "first" /\ HeaderParses(input)) =>
        /\ TotalLen(input) > Len(input) <=>
                (first.err # Nil /\ first.err[1].msg = "indicated length of value is out of bounds")
        /\ (first.err # Nil /\ TotalLen(input) <= Len(input)) =>
                /\ FirstHasInvalidContent(input)
                /\ first.err[1].msg = "invalid child object"
        /\ FirstHasInvalidContent(input) => first.err # Nil
        /\ first.err = Nil =>
                /\ first.berTLV.Value =
                        SubSeq(input, Len(TagOf(input).tag) + LengthOf(input).lLen + 1,
                               TotalLen(input))
                /\ Len(first.berTLV.Value) = LengthOf(input).length
                /\ first.lenParsed = TotalLen(input)

\* A TLV with a non-empty value was decoded from a buffer that holds more
\* bytes after it.
C5_Witness ==
    /\ pc = "first"
    /\ first.err = Nil
    /\ Len(first.berTLV.Value) > 0
    /\ first.lenParsed < Len(input)

\* C8: in every input Parse accepts, the length form of the first TLV
\* fixes the range of its length: one byte 0-127, marker 0x81 128-255,
\* marker 0x82 256-65535.
C8_LengthFormRange ==
    (pc = "parsed" /\ parsed.err = Nil) =>
        LET marker == input[Len(parsed.tlvs[1].Tag) + 1]
            length == Len(parsed.tlvs[1].Value)
        IN  /\ marker <= 127 => length \in 0..127
            /\ marker = 129 => length \in 128..255
            /\ marker = 130 => length \in 256..65535

\* C6: on a non-empty buffer parseTag returns a 1-byte tag when the low 5
\* bits of byte 0 are not all set, a 2-byte tag when they are all set and
\* bit 0x80 of byte 1 is clear, a 3-byte tag when bit 0x80 of byte 1 is
\* set, and fails exactly when the second or third byte it needs is absent.
C6_ParseTag ==
    pc = "tag" =>
        LET more  == input[1] % 32 = 31
            third == Len(input) >= 2 /\ input[2] >= 128
        IN  /\ ~more => tagRes.err = Nil /\ tagRes.tag = <<input[1]>>
            /\ (more /\ Len(input) >= 2 /\ ~third) =>
                    tagRes.err = Nil /\ tagRes.tag = <<input[1], input[2]>>
            /\ (more /\ third /\ Len(input) >= 3) =>
                    tagRes.err = Nil /\ tagRes.tag = <<input[1], input[2], input[3]>>
            /\ tagRes.err # Nil <=>
                    (more /\ (Len(input) = 1 \/ (third /\ Len(input) = 2)))

\* A 3-byte tag was read.
C6_Witness ==
    /\ pc = "tag"
    /\ tagRes.err = Nil
    /\ Len(tagRes.tag) = 3
    /\ tagRes.tag = input

\* C7: parseLength accepts only a first byte 0x00-0x7F (1 byte consumed),
\* 0x81 followed by at least 1 byte (2 consumed) and 0x82 followed by at
\* least 2 bytes (3 consumed, big-endian); it fails on an empty buffer, on
\* 0x81/0x82 with following bytes missing, on 0x80 and on every first
\* byte greater than 0x82.
C7_ParseLength ==
    pc = "length" =>
        LET short == Len(input) >= 1 /\ input[1] <= 127
            two   == Len(input) >= 2 /\ input[1] = 129
            three == Len(input) >= 3 /\ input[1] = 130
        IN  /\ lenRes.err = Nil <=> (short \/ two \/ three)
            /\ short => lenRes.length = input[1] /\ lenRes.lLen = 1
            /\ two => lenRes.length = input[2] /\ lenRes.lLen = 2
            /\ three => lenRes.length = 256 * input[2] + input[3] /\ lenRes.lLen = 3
            /\ (Len(input) = 0 \/ (Len(input) >= 1 /\ input[1] = 128)
                    \/ (Len(input) >= 1 /\ input[1] > 130)
                    \/ (Len(input) = 1 /\ input[1] = 129)
                    \/ (Len(input) <= 2 /\ Len(input) >= 1 /\ input[1] = 130))
                => lenRes.err # Nil

\* The three-byte form was read with a non-zero high byte.
C7_Witness ==
    /\ pc = "length"
    /\ lenRes.err = Nil
    /\ lenRes.lLen = 3
    /\ lenRes.length >= 256

\* C9: buildLen(n) is [n] for n <= 127, [0x81, n] for 128 <= n <= 255 and
\* [0x82, n div 256, n mod 256] for 256 <= n <= 65535.
C9_BuildLen ==
    pc = "lenBuilt" =>
        /\ n <= 127 => lenBytes = <<n>>
        /\ (128 <= n /\ n <= 255) => lenBytes = <<129, n>>
        /\ (256 <= n /\ n <= 65535) => lenBytes = <<130, n \div 256, n % 256>>
        /\ n = 0 => lenBytes = <<0>>
        /\ n = 127 => lenBytes = <<127>>
        /\ n = 128 => lenBytes = <<129, 128>>
        /\ n = 255 => lenBytes = <<129, 255>>
        /\ n = 256 => lenBytes = <<130, 1, 0>>
        /\ n = 65535 => lenBytes = <<130, 255, 255>>

\* The largest length was encoded.
C9_Witness ==
    /\ pc = "lenBuilt"
    /\ n = 65535
    /\ lenBytes = <<130, 255, 255>>

\* Tag bytes, buildLen(len(value)) and value bytes of each node, in order.
RECURSIVE TagLengthValue(_)
TagLengthValue(t) ==
    IF t = <<>> THEN <<>>
    ELSE Head(t).Tag \o buildLen(Len(Head(t).Value)) \o Head(t).Value
            \o TagLengthValue(Tail(t))

\* The nodes of t, each with children c in place of its own.
WithChildren(t, c) ==
    [i \in 1..Len(t) |-> [Tag |-> t[i].Tag, Value |-> t[i].Value, children |-> c]]

\* Tags of 1-3 bytes and values of at most 65535 bytes.
NoTruncation(t) ==
    \A i \in 1..Len(t) : Len(t[i].Tag) \in 1..3 /\ Len(t[i].Value) <= 65535

\* C10: for nodes with 1-3 byte tags and values of at most 65535 bytes,
\* BerTLVs.Bytes() is the in-order concatenation, per node, of the tag
\* bytes, buildLen(len(value)) and the value bytes; it depends on each
\* node's tag and value only, never on its children.
C10_EncodeConcat ==
    (pc = "bytesOut" /\ NoTruncation(tlvs)) =>
        /\ out = TagLengthValue(tlvs)
        /\ \A c \in NodeChildren : BerTLVsBytes(WithChildren(tlvs, c)) = out

\* Two nodes were encoded, one of which has children that are not the
\* decode of its value.
C10_Witness ==
    /\ pc = "bytesOut"
    /\ NoTruncation(tlvs)
    /\ Len(tlvs) = 2
    /\ tlvs[1].children # <<>>
    /\ tlvs[1].Value = <<>>
    /\ out = TagLengthValue(tlvs)

\* The tag bytes Bytes() emits for a tag.
EmittedTag(t) ==
    IF Len(t) = 0 THEN <<0>> ELSE IF Len(t) <= 3 THEN t ELSE SubSeq(t, 1, 3)

\* C11: for a node whose value is longer than 65535 bytes, Bytes() equals
\* Bytes() of the node with the value cut to its first 65535 bytes, the
\* length field after the tag is 82 FF FF and is followed by exactly those
\* 65535 bytes, and the caller's node still holds its whole value.
C11_ValueTruncation ==
    (pc = "longBytes" /\ n > 65535) =>
        LET cut == SubSeq(MarkedValue(n), 1, 65535)
            tl  == Len(EmittedTag(argTag))
        IN  /\ out = BerTLVBytes([Tag |-> argTag, Value |-> cut, children |-> <<>>])
            /\ SubSeq(out, tl + 1, tl + 3) = <<130, 255, 255>>
            /\ SubSeq(out, tl + 4, Len(out)) = cut
            /\ input = MarkedValue(n)

\* A node with a value of 65536 bytes was encoded to 1 + 3 + 65535 bytes;
\* the marked last byte of the value is not in the encoding.
C11_Witness ==
    /\ pc = "longBytes"
    /\ n = 65536
    /\ argTag = <<1>>
    /\ Len(out) = 65539
    /\ out[5] = 1
    /\ out[Len(out)] = 0
    /\ Len(input) = 65536

\* C12: Bytes() emits the tag unchanged when it has 1-3 bytes, the single
\* byte 00 when the tag is empty and the first 3 tag bytes when the tag is
\* longer; what follows is the length field and the value, the same for
\* every tag.
C12_TagHandling ==
    (pc = "nodeBytes") =>
        LET ber == tlvs[1]
            t   == ber.Tag
            v   == IF Len(ber.Value) > 65535 THEN SubSeq(ber.Value, 1, 65535) ELSE ber.Value
            e   == IF Len(t) \in 1..3 THEN t
                   ELSE IF t = <<>> THEN <<0>>
                   ELSE <<t[1], t[2], t[3]>>
        IN  out = e \o buildLen(Len(v)) \o v

\* A node with a 4-byte tag was encoded with a 3-byte tag.
C12_Witness ==
    /\ pc = "nodeBytes"
    /\ Len(tlvs[1].Tag) = 4
    /\ tlvs[1].Value = <<1, 0>>
    /\ out = <<31, 128, 129, 2, 1, 0>>

\* C13: for every node, BytesLength() is the number of bytes Bytes()
\* produces.
C13_BytesLength ==
    (pc = "nodeLength") => n = Len(out)

\* Bit 0x20 of the first tag byte.
ConstructedBit(t) == t # <<>> /\ (t[1] \div 32) % 2 = 1

\* C14: NewBerTLV(tag, value) returns an error (and no node) exactly when
\* the tag is constructed and the value is non-empty and Parse cannot
\* decode it as a sequence of TLVs; otherwise it returns a node with the
\* given tag and value, whatever the tag's encoding, and without children
\* when the tag is primitive.
C14_NewBerTLV ==
    (pc = "newDone") =>
        LET fails == /\ ConstructedBit(argTag)
                     /\ input # <<>>
                     /\ Parse(input).err # Nil
        IN  /\ (node.err # Nil) <=> fails
            /\ fails => node.berTLV = Nil
            /\ ~fails =>
                /\ Len(node.berTLV) = 1
                /\ node.berTLV[1].Tag = argTag
                /\ node.berTLV[1].Value = input
                /\ ~ConstructedBit(argTag) => node.berTLV[1].children = <<>>

\* A constructed tag with a value that ends inside its child: an error.
C14_Witness ==
    /\ pc = "newDone"
    /\ argTag = <<33>>
    /\ input = <<1, 2, 0>>
    /\ node.err # Nil
    /\ node.berTLV = Nil

\* The tag and the value (AddByte: the byte, AddRaw: the bytes) a
\* recorded call was made with.
OpTag(o) ==
    CASE o.op = "AddEmpty" -> EmptyArgs[o.arg]
      [] o.op = "AddByte"  -> ByteArgs[o.arg][1]
      [] o.op = "AddBytes" -> BytesArgs[o.arg][1]
      [] o.op = "AddRaw"   -> <<>>

OpValue(o) ==
    CASE o.op = "AddEmpty" -> <<>>
      [] o.op = "AddByte"  -> <<ByteArgs[o.arg][2]>>
      [] o.op = "AddBytes" -> BytesArgs[o.arg][2]
      [] o.op = "AddRaw"   -> RawArgs[o.arg]

\* What one call adds to the Builder's contents.
Contribution(o) ==
    LET v == OpValue(o)
        k == IF Len(v) < 65535 THEN Len(v) ELSE 65535
    IN  CASE o.op = "AddEmpty" -> OpTag(o) \o <<0>>
          [] o.op = "AddByte"  -> OpTag(o) \o <<1, v[1]>>
          [] o.op = "AddBytes" -> OpTag(o) \o buildLen(k) \o SubSeq(v, 1, k)
          [] o.op = "AddRaw"   -> v

RECURSIVE Contributions(_)
Contributions(os) ==
    IF os = <<>> THEN <<>>
    ELSE Contributions(SubSeq(os, 1, Len(os) - 1)) \o Contribution(os[Len(os)])

IsPrefix(a, b) == Len(a) <= Len(b) /\ SubSeq(b, 1, Len(a)) = a

\* C15: after any chain of calls from the empty Builder, Bytes() of the
\* last returned Builder is the in-order concatenation of what each call
\* contributes (AddEmpty: tag, 00; AddByte: tag, 01, b; AddBytes: tag,
\* buildLen of the length capped at 65535, that many first bytes of v;
\* AddRaw: the bytes), and the contents after each earlier call of the
\* chain are a prefix of it.
C15_BuilderConcat ==
    /\ BuilderBytes(bu) = Contributions(ops)
    /\ \A k \in 0..Len(ops) :
        IsPrefix(Contributions(SubSeq(ops, 1, k)), BuilderBytes(bu))

\* AddBytes(0x21, 01 01 00) and then AddByte(0x0A, 0xFF).
C15_Witness ==
    /\ Len(ops) = 2
    /\ ops[1].op = "AddBytes"
    /\ ops[2].op = "AddByte"
    /\ BuilderBytes(bu) = <<33, 3, 1, 1, 0, 10, 1, 255>>

\* A tag of 1-3 bytes whose continuation bits are consistent.
WellFormedTag(t) ==
    /\ Len(t) \in 1..3
    /\ LET low5 == t[1] % 32
       IN  IF Len(t) = 1 THEN low5 # 31
           ELSE /\ low5 = 31
                /\ IF Len(t) = 2 THEN t[2] < 128 ELSE t[2] >= 128

\* The first 65535 bytes of a value.
Cut(v) == IF Len(v) > 65535 THEN SubSeq(v, 1, 65535) ELSE v

\* A chain of AddEmpty, AddByte and AddBytes with well-formed tags, whose
\* values under a constructed tag are empty or decodable.
DecodableChain(os) ==
    \A i \in 1..Len(os) :
        /\ os[i].op \in {"AddEmpty", "AddByte", "AddBytes"}
        /\ WellFormedTag(OpTag(os[i]))
        /\ ConstructedBit(OpTag(os[i])) =>
            (OpValue(os[i]) = <<>> \/ Parse(Cut(OpValue(os[i]))).err = Nil)

\* C16 as stated: BuildBerTLVs() returns what Parse returns on the
\* accumulated bytes, and a chain of AddEmpty/AddByte/AddBytes with
\* well-formed tags and decodable constructed values yields one top-level
\* node per call, in order, with that call's tag and value.
C16_NodeCarriesValue ==
    (pc = "built") =>
        /\ built = Parse(BuilderBytes(bu))
        /\ DecodableChain(ops) /\ ops # <<>> =>
            /\ built.err = Nil
            /\ Len(built.tlvs) = Len(ops)
            /\ \A i \in 1..Len(ops) :
                /\ built.tlvs[i].Tag = OpTag(ops[i])
                /\ built.tlvs[i].Value = OpValue(ops[i])

\* C16: BuildBerTLVs() returns what Parse returns on the accumulated bytes,
\* and a chain of AddEmpty/AddByte/AddBytes with well-formed tags and
\* decodable constructed values yields one top-level node per call, in
\* order, with that call's tag and the first 65535 bytes of its value.
C16_BuilderDecoder ==
    (pc = "built") =>
        /\ built = Parse(BuilderBytes(bu))
        /\ DecodableChain(ops) /\ ops # <<>> =>
            /\ built.err = Nil
            /\ Len(built.tlvs) = Len(ops)
            /\ \A i \in 1..Len(ops) :
                /\ built.tlvs[i].Tag = OpTag(ops[i])
                /\ built.tlvs[i].Value = Cut(OpValue(ops[i]))

\* AddByte(0x0A, 0xFF) and AddBytes(0x21, 01 01 00) were finalized to the
\* tree Parse returns for 0A 01 FF 21 03 01 01 00.
C16_Witness ==
    /\ pc = "built"
    /\ Len(ops) = 2
    /\ ops[1].op = "AddByte" /\ OpTag(ops[1]) = <<10>> /\ OpValue(ops[1]) = <<255>>
    /\ ops[2].op = "AddBytes" /\ OpTag(ops[2]) = <<33>> /\ OpValue(ops[2]) = <<1, 1, 0>>
    /\ built = Parse(<<10, 1, 255, 33, 3, 1, 1, 0>>)
    /\ Len(built.tlvs) = 2
    /\ Len(built.tlvs[2].children) = 1

\* The nodes of a sequence whose tag is the given one, in order.
WithTag(t, tg) == SelectSeq(t, LAMBDA x : x.Tag = tg)

\* C17: FindAllWithTag(tag) returns exactly the top-level nodes whose tag
\* equals the given tag, in their order, and nothing when there is none;
\* a node that occurs only as a child of a sibling is not returned.
C17_FindAllWithTag ==
    (pc = "foundAll") =>
        /\ found = WithTag(tlvs, argTag)
        /\ \A i \in 1..Len(found) : \E j \in 1..Len(tlvs) : found[i] = tlvs[j]

\* The second of two siblings was found; the first has a child with the
\* tag searched for, which was not.
C17_Witness ==
    /\ pc = "foundAll"
    /\ Len(tlvs) = 2
    /\ argTag = <<1>>
    /\ tlvs[1].Tag = <<33>>
    /\ Len(tlvs[1].children) = 1
    /\ tlvs[1].children[1].Tag = <<1>>
    /\ found = <<tlvs[2]>>

\* C18: Children without a filter returns all direct children in order,
\* which is empty for every node that is not constructed or has none;
\* with a filter it returns exactly the direct children with that tag, in
\* order, and nothing for a node that is not constructed.
C18_Children ==
    (pc = "children") =>
        LET ber == tlvs[1]
        IN  IF argTag = <<>>
                THEN /\ found = ber.children
                     /\ ~ConstructedBit(ber.Tag) => found = <<>>
                ELSE IF ConstructedBit(ber.Tag)
                    THEN found = WithTag(ber.children, argTag)
                    ELSE found = <<>>

\* C19: FindFirstWithTag(tag) is nil when FindAllWithTag(tag) is empty and
\* otherwise points to a node equal to its first element; FirstChild(f) is
\* nil when Children(f) is empty and otherwise points to a node equal to
\* its first element, for every filter and for no filter.
C19_FirstAgreesWithAll ==
    (pc \in {"foundBoth", "childrenBoth"}) =>
        foundFirst = (IF found = <<>> THEN Nil ELSE <<found[1]>>)

\* Two siblings have the tag searched for and differ; the first was found.
C19_Witness ==
    /\ pc = "foundBoth"
    /\ Len(found) = 2
    /\ found[1] # found[2]
    /\ foundFirst = <<tlvs[1]>>

\* C20: for every tag of one or more bytes, CheckEncoding returns no error
\* exactly when the tag has 1-3 bytes and its continuation bits are
\* consistent (1 byte: low 5 bits of byte 0 not all set; 2 bytes: all set
\* and bit 0x80 of byte 1 clear; 3 bytes: all set and bit 0x80 of byte 1
\* set); every other such tag, every tag of more than 3 bytes among them,
\* gets an error.
C20_CheckEncoding ==
    (pc = "checked" /\ Len(input) >= 1) =>
        /\ (chk = Nil) <=> WellFormedTag(input)
        /\ Len(input) > 3 => chk # Nil

\* A 3-byte tag whose second byte has bit 0x80 set passed the check.
C20_Witness ==
    /\ pc = "checked"
    /\ Len(input) = 3
    /\ input[1] = 95
    /\ input[2] = 129
    /\ chk = Nil

\* The trees a successful Parse or NewBerTLV has returned.
ReturnedForest ==
    IF pc = "parsed" /\ parsed.err = Nil THEN parsed.tlvs
    ELSE IF pc = "newDone" /\ node.err = Nil THEN node.berTLV
    ELSE <<>>

\* The lengths consumed by the consecutive TLVs of b, summed; -1 when one of
\* them does not decode.
RECURSIVE ConsumedSum(_)
ConsumedSum(b) ==
    IF Len(b) = 0 THEN 0
    ELSE LET r == parseFirstBerTLV(b)
         IN  IF r.err # Nil \/ r.lenParsed < 1 \/ r.lenParsed > Len(b) THEN -1
             ELSE LET rest == ConsumedSum(SliceFrom(b, r.lenParsed))
                  IN  IF rest < 0 THEN -1 ELSE r.lenParsed + rest

\* C21: tree invariant.  In every tree returned by a successful Parse or
\* NewBerTLV, a node with a constructed tag and a non-empty value has as
\* children exactly the consecutive TLVs decoded from its value, whose
\* consumed lengths sum to the length of the value; a node with a primitive
\* tag or an empty value has no children.
C21_TreeInvariant ==
    \A nd \in AllNodes(ReturnedForest) :
        IF ConstructedBit(nd.Tag) /\ Len(nd.Value) > 0
            THEN /\ Parse(nd.Value).err = Nil
                 /\ nd.children = Parse(nd.Value).tlvs
                 /\ ConsumedSum(nd.Value) = Len(nd.Value)
            ELSE nd.children = <<>>

\* A returned tree holds a constructed node with two children, one of them
\* constructed with a child of its own.
C21_Witness ==
    /\ ReturnedForest # <<>>
    /\ \E nd \in AllNodes(ReturnedForest) :
          /\ Len(nd.children) = 2
          /\ \E c \in AllNodes(nd.children) : c.children # <<>>

\* C23: the two copies of the codec are observationally equivalent.  On
\* every buffer both Parse agree on success versus failure and, on success,
\* return the same tree; both NewBerTLV agree likewise on every (tag, value).
C23_CopiesAgree ==
    /\ pc = "parsedBoth" =>
          /\ (parsed.err = Nil) <=> (parsed2.err = Nil)
          /\ parsed.err = Nil => parsed2.tlvs = parsed.tlvs
    /\ pc = "newBoth" =>
          /\ (node.err = Nil) <=> (node2.err = Nil)
          /\ node.err = Nil => node2.berTLV = node.berTLV

\* Both copies of Parse have failed on a nested buffer, each with an error
\* of its own wording.
C23_Witness ==
    /\ pc = "parsedBoth"
    /\ input = <<33, 3, 33, 1, 0>>
    /\ parsed.err # Nil /\ parsed2.err # Nil
    /\ parsed.err # parsed2.err

\* The offset in b, from index on, of the first TLV that does not decode.
RECURSIVE FailingOffset(_, _)
FailingOffset(b, index) ==
    LET r == parseFirstBerTLV(SliceFrom(b, index))
    IN  IF r.err # Nil \/ r.lenParsed < 1 THEN index
        ELSE FailingOffset(b, index + r.lenParsed)

\* Where the decoding of the TLV at the start of b fails: the tags of the
\* constructed TLVs around the failure, outermost first, and the tag at
\* which it fails (the incomplete tag when it is the tag that fails).
RECURSIVE FailurePath(_)
FailurePath(b) ==
    LET t == parseTag(b)
        l == parseLength(SliceFrom(b, Len(t.tag)))
        leftIndex == Len(t.tag) + l.lLen
    IN  IF t.err # Nil THEN [enclosing |-> <<>>, failing |-> b]
        ELSE IF l.err # Nil \/ leftIndex + l.length > Len(b)
            THEN [enclosing |-> <<>>, failing |-> t.tag]
        ELSE LET value == Slice(b, leftIndex, leftIndex + l.length)
                 inner == FailurePath(SliceFrom(value, FailingOffset(value, 0)))
             IN  [enclosing |-> <<t.tag>> \o inner.enclosing,
                  failing |-> inner.failing]

\* The error chain err carries, read from its innermost context outwards,
\* the failing tag, the enclosing tags and the top-level offset.
CarriesContext(err, b) ==
    LET offset == FailingOffset(b, 0)
        path   == FailurePath(SliceFrom(b, offset))
        d      == Len(path.enclosing)
    IN  /\ Len(err) >= d + 2
        /\ err[1].index = offset
        /\ \A i \in 1..d : err[1 + i].tag = path.enclosing[i]
        /\ err[d + 2].tag = path.failing

\* C22: error context chain.  When Parse (of either copy) fails inside a
\* TLV nested under d enclosing constructed TLVs, the error carries, in
\* unwinding order, the failing tag, each of the d enclosing tags, and the
\* top-level offset at which the failing top-level TLV starts.
C22_ErrorChain ==
    /\ pc = "parsed" /\ Len(input) > 0 /\ parsed.err # Nil
          => CarriesContext(parsed.err, input)
    /\ pc = "parsedBoth" /\ Len(input) > 0 /\ parsed2.err # Nil
          => CarriesContext(parsed2.err, input)

\* The chain of the first copy alone, which wraps the offset around the
\* error of parseFirstBerTLV.
FirstCopyCarriesContext ==
    pc = "parsed" /\ Len(input) > 0 /\ parsed.err # Nil
        => CarriesContext(parsed.err, input)

\* C24: the node handed out by FindFirstWithTag and by FirstChild, with
\* and without a tag filter, is a copy: after a new Tag or Value has been
\* assigned to it, the sibling sequence and the children of the parent are
\* what they were before.
C24_ReturnedNodeIsCopy ==
    pc = "assigned" => tlvs = held

\* An error chain that holds a runtime panic.
HasPanic(err) ==
    \E i \in 1..Len(err) : <<err[i]>> \in {PanicIndex, PanicSlice}

\* C25: memory safety of decoding.  On every buffer Parse, and on every
\* tag and value NewBerTLV, return a result or an error: no index or slice
\* bound of parseTag, parseLength or the value slice is outside the buffer,
\* and parseTag is never called on an empty buffer.
C25_NoPanic ==
    /\ ~HasPanic(parsed.err) /\ ~HasPanic(parsed2.err)
    /\ ~HasPanic(node.err) /\ ~HasPanic(node2.err)
    /\ pc \in {"parsed", "parsedBoth"} => parsed.err # Nil \/ Len(parsed.tlvs) > 0
    /\ pc \in {"newDone", "newBoth"} => node.err # Nil \/ Len(node.berTLV) = 1

\* A declared length that reaches one byte past the end of the buffer, two
\* levels down, has been answered with an error.
C25_Witness ==
    /\ pc = "parsed"
    /\ input = <<33, 4, 33, 2, 1, 1>>
    /\ parsed.err # Nil
    /\ ~HasPanic(parsed.err)

\* The levels of nesting of a forest.
RECURSIVE Depth(_)
Depth(forest) ==
    IF forest = <<>> THEN 0
    ELSE LET d == {1 + Depth(forest[i].children) : i \in 1..Len(forest)}
         IN  CHOOSE m \in d : \A k \in d : k <= m

\* The offset of a loop that goes on moves on by at least 2, whether the
\* TLV it has decoded had children or not.
LoopAdvances ==
    /\ stack # <<>> /\ Len(stack') = Len(stack)
          => stack'[Len(stack)].i >= stack[Len(stack)].i + 2
    /\ stack' # <<>> /\ Len(stack') < Len(stack)
          => stack'[Len(stack')].i >= stack[Len(stack')].i + 2

\* No offset is past the end of its buffer, the buffer of each loop is
\* shorter by 2 or more than the buffer of the loop around it, and the
\* TLVs whose children are being decoded are at most half the input many.
LoopsInRange ==
    /\ \A k \in 1..Len(stack) :
          /\ stack[k].i <= Len(stack[k].b)
          /\ stack[k].i + stack[k].lenParsed <= Len(stack[k].b)
          /\ k > 1 => Len(stack[k].b) + 2 <= Len(stack[k - 1].b)
    /\ stack # <<>> => 2 * (Len(stack) - 1) <= Len(input)

\* What the loops return is what Parse and NewBerTLV return, and a returned
\* tree is at most half the input deep.
LoopsReturn ==
    /\ pc = "returned" /\ argTag = <<>> =>
          Parse(input).err = Nil /\ Depth(Parse(input).tlvs) * 2 <= Len(input)
    /\ pc = "returned" /\ argTag # <<>> =>
          /\ NewBerTLV(argTag, input).err = Nil
          /\ Depth(NewBerTLV(argTag, input).berTLV[1].children) * 2 <= Len(input)
    /\ pc = "failed" /\ argTag = <<>> => Parse(input).err # Nil
    /\ pc = "failed" /\ argTag # <<>> => NewBerTLV(argTag, input).err # Nil

\* C26: termination.  Parse and NewBerTLV return on every input: every
\* decoded TLV reports a consumed length of at least 2 and at most the
\* bytes that remain, so the offset of each decode loop strictly grows and
\* never passes the end of its buffer, each recursive call works on a
\* shorter buffer, and the nesting is at most half the input deep.
C26_Termination ==
    /\ [](LoopsInRange /\ LoopsReturn)
    /\ [][LoopAdvances]_vars
    /\ <>(pc \in {"returned", "failed"})

\* Three loops are running, one inside the other, on a buffer of six bytes.
C26_Witness ==
    /\ pc = "parseLoop"
    /\ Len(stack) = 3
    /\ Len(input) = 6
    /\ Top.i = 0

\* C27: builder values do not interfere.  An Add call changes the bytes of
\* no builder value obtained earlier: the receiver shows what it showed
\* before the call, and every result shows what it showed when it was
\* returned, whatever Add calls are made later on its receiver or on
\* another builder derived from it.
C27_BuildersDoNotInterfere ==
    \A j \in 1..Len(builders) : SliceBytes(heap, builders[j]) = seen[j]

\* C28: independence from the input buffer.  After Parse(b) or
\* NewBerTLV(tag, v) has returned a tree, a write to the caller's buffer
\* changes the Value of no node, so the children of every node are still
\* the decode of its value.
C28_IndependentOfBuffer ==
    pc = "overwritten" =>
        /\ tlvs = held
        /\ \A nd \in AllNodes(tlvs) :
              ConstructedBit(nd.Tag) /\ Len(nd.Value) > 0 =>
                  Parse(nd.Value).err = Nil /\ Parse(nd.Value).tlvs = nd.children

\* C29: every tag of every node, at every depth, of a tree returned by a
\* successful Parse has 1 to 3 bytes and passes CheckEncoding.
C29_ParsedTagsWellFormed ==
    pc = "parsed" /\ parsed.err = Nil =>
        \A nd \in AllNodes(parsed.tlvs) :
            /\ Len(nd.Tag) \in 1..3
            /\ CheckEncoding(nd.Tag) = Nil

\* A tree with a 3-byte tag at the top, or one with a 2-byte tag one level
\* down, has been returned.
C29_Witness ==
    /\ pc = "parsed"
    /\ parsed.err = Nil
    /\ \/ input = <<31, 129, 1, 0>> /\ parsed.tlvs[1].Tag = <<31, 129, 1>>
       \/ input = <<33, 3, 31, 1, 0>> /\ parsed.tlvs[1].children[1].Tag = <<31, 1>>

\* C30: the tag methods are total on the empty tag.  CheckEncoding on a
\* tag of no bytes returns an encoding error and Class returns a class,
\* neither of them reading byte 0 of the empty sequence.
C30_TotalOnEmptyTag ==
    /\ pc = "checked" /\ Len(input) = 0 => chk # Nil /\ ~HasPanic(chk)
    /\ pc = "classed" /\ Len(input) = 0 =>
          /\ ~HasPanic(cls.err)
          /\ cls.class \in {"Universal", "Application", "ContextSpecific", "Private"}

====
